---- MODULE Spec2Model ----
(***************************************************************************)
(* Export engine of the story generator: stories/export_service.py, the    *)
(* export views of api/views.py and the Story model of stories/models.py.  *)
(* Text is modelled as a sequence of one-character strings, an optional    *)
(* value (None or a value) as the empty or the one-element sequence.       *)
(***************************************************************************)
EXTENDS Integers, Sequences, FiniteSets, TLC

VARIABLES stories, nextId, svc, calls, now, mbatch, mout, users, collections, profiles

vars == <<stories, nextId, svc, calls, now, mbatch, mout, users, collections, profiles>>

(* ------------------------------ bounds --------------------------------- *)
MaxStories == 2
MaxWorkers == 2
MaxBatch == 2
MaxLen == 2
MaxTime == 2
MaxCols == 3

Users == {"alice", "bob"}
Anonymous == "anon"
Formats == {"txt", "pdf", "html"}
RequestFormats == Formats \cup {"docx"}
Genres == {"fantasy", "sci_fi"}
TemplateSentinel == "simple_algorithm"
Models == {TemplateSentinel, "claude-sonnet-4"}
Whitespace == {" ", "\n"}
ContentChars == {"a", " "}
None == << >>
Some(v) == <<v>>
Ratings == {None, Some(0), Some(4), Some(5)}
ErrKinds == {"ValueError", "Exception"}

(* ------------------------- text helpers (Python str) ------------------- *)
Str_story == <<"s", "t", "o", "r", "y">>
Str_Untitled == <<"U", "n", "t", "i", "t", "l", "e", "d">>
Str_UntitledStory == Str_Untitled \o <<" ", "S", "t", "o", "r", "y">>

StrOrKeepsEmpty(x, dflt) == x

\* x or default, for a Python string x
StrOr(x, dflt) == IF x = << >> THEN dflt ELSE x

\* Python truthiness of an optional integer: None and 0 are falsy
Truthy(opt) == opt # None /\ opt[1] # 0

RECURSIVE SplitCount(_, _)
\* len(s.split()): the number of maximal runs of non-whitespace characters
SplitCount(s, inWord) ==
  IF s = << >> THEN 0
  ELSE IF Head(s) \in Whitespace THEN SplitCount(Tail(s), FALSE)
  ELSE (IF inWord THEN 0 ELSE 1) + SplitCount(Tail(s), TRUE)

WordCountIsLength(content) == Len(content)

\* Story.word_count
WordCount(content) == IF content # << >> THEN SplitCount(content, FALSE) ELSE 0

TitleMax == 50
Ellipsis == <<".", ".", ".">>

\* Story.save: the title defaults to the first 50 characters of the content
AutoTitle(title, content) ==
  IF title = << >> /\ content # << >>
  THEN (IF Len(content) > TitleMax THEN SubSeq(content, 1, TitleMax) \o Ellipsis
        ELSE content)
  ELSE title

LowerOf(ch) ==
  CASE ch = "A" -> "a" [] ch = "S" -> "s" [] ch = "U" -> "u" [] OTHER -> ch

SlugWordChars == {"a", "b", "d", "e", "i", "l", "n", "o", "r", "s", "t", "u", "y",
                  "1", "2", "_"}

RECURSIVE SlugFilter(_)
\* re.sub(r'[^\w\s-]', '', value.lower())
SlugFilter(s) ==
  IF s = << >> THEN << >>
  ELSE LET ch == LowerOf(Head(s)) IN
       (IF ch \in SlugWordChars \cup Whitespace \cup {"-"} THEN <<ch>> ELSE << >>)
         \o SlugFilter(Tail(s))

RECURSIVE SlugHyphenate(_, _)
\* re.sub(r'[-\s]+', '-', value)
SlugHyphenate(s, inRun) ==
  IF s = << >> THEN << >>
  ELSE IF Head(s) \in Whitespace \cup {"-"}
       THEN (IF inRun THEN << >> ELSE <<"-">>) \o SlugHyphenate(Tail(s), TRUE)
       ELSE <<Head(s)>> \o SlugHyphenate(Tail(s), FALSE)

RECURSIVE StripLeft(_, _)
StripLeft(s, chars) ==
  IF s # << >> /\ Head(s) \in chars THEN StripLeft(Tail(s), chars) ELSE s

RECURSIVE StripRight(_, _)
StripRight(s, chars) ==
  IF s # << >> /\ s[Len(s)] \in chars
  THEN StripRight(SubSeq(s, 1, Len(s) - 1), chars) ELSE s

\* django.utils.text.slugify as called for the export file names
Slugify(s) == StripRight(StripLeft(SlugHyphenate(SlugFilter(s), FALSE), {"-", "_"}),
                         {"-", "_"})

\* Story.get_genre_display
GenreDisplay(g) ==
  CASE g = "fantasy" -> "Fantasy" [] g = "sci_fi" -> "Science Fiction" [] OTHER -> g

(* ------------------------------ renderers ------------------------------ *)
\* StoryExportService.__init__ / _setup_custom_styles
SetupCustomStyles ==
  [title_style |-> [name |-> "CustomTitle", fontSize |-> 24, spaceAfter |-> 30,
                    textColor |-> "blue", alignment |-> 1],
   meta_style |-> [name |-> "CustomMeta", fontSize |-> 10, spaceAfter |-> 20,
                   textColor |-> "gray"],
   content_style |-> [name |-> "CustomContent", fontSize |-> 12, leading |-> 18,
                      spaceAfter |-> 12, alignment |-> 4],
   keywords_style |-> [name |-> "CustomKeywords", fontSize |-> 11, spaceAfter |-> 15,
                       textColor |-> "blue", leftIndent |-> 20]]

SelfAfterExportShrinksTitle(self) ==
  [self EXCEPT !.title_style.fontSize = IF @ > 23 THEN @ - 1 ELSE @]

\* the service object after one export method ran: no export method assigns to self
SelfAfterExport(self) == self

Line(label, value) == [label |-> label, value |-> value]

GenerateTxtContentStampsTwice(story, t) ==
  <<Line("Title", StrOr(story.title, Str_UntitledStory)),
    Line("Created", t),
    Line("Exported from AI Story Generator on", t),
    Line("", "https://github.com/your-username/ai-story-generator")>>

\* StoryExportService._generate_txt_content
GenerateTxtContent(story, t) ==
  <<Line("Title", StrOr(story.title, Str_UntitledStory)),
    Line("Author", story.user),
    Line("Created", story.created_at),
    Line("Genre", GenreDisplay(story.genre)),
    Line("Length", story.length),
    Line("Tone", story.tone),
    Line("Keywords", story.keywords),
    Line("Word Count", WordCount(story.content)),
    Line("", "")>>
  \o (IF Truthy(story.rating)
      THEN <<Line("Rating", story.rating[1]), Line("", "")>> ELSE << >>)
  \o (IF story.ai_model_used # TemplateSentinel
      THEN <<Line("Generated with", story.ai_model_used), Line("", "")>> ELSE << >>)
  \o <<Line("", "===="), Line("", "STORY CONTENT"), Line("", "===="), Line("", ""),
       Line("content", story.content), Line("", ""), Line("", "===="),
       Line("Exported from AI Story Generator on", t),
       Line("", "https://github.com/your-username/ai-story-generator")>>

RECURSIVE SplitBlankLines(_, _)
\* content.split('\n\n'): cur is the block being read
SplitBlankLines(s, cur) ==
  IF s = << >> THEN <<cur>>
  ELSE IF Len(s) >= 2 /\ s[1] = "\n" /\ s[2] = "\n"
       THEN <<cur>> \o SplitBlankLines(SubSeq(s, 3, Len(s)), << >>)
       ELSE SplitBlankLines(Tail(s), Append(cur, Head(s)))

Strip(s) == StripRight(StripLeft(s, Whitespace), Whitespace)

Para(text, style) == [kind |-> "Paragraph", text |-> text, style |-> style]
Spacer(h) == [kind |-> "Spacer", text |-> << >>, style |-> [height |-> h]]

RECURSIVE BodyElementsKeepsBlank(_, _)
BodyElementsKeepsBlank(paras, style) ==
  IF paras = << >> THEN << >>
  ELSE <<Para(Strip(Head(paras)), style), Spacer(6)>>
       \o BodyElementsKeepsBlank(Tail(paras), style)

RECURSIVE BodyElements(_, _)
\* the loop over the paragraphs of _build_pdf_elements
BodyElements(paras, style) ==
  IF paras = << >> THEN << >>
  ELSE (IF Strip(Head(paras)) # << >>
        THEN <<Para(Strip(Head(paras)), style), Spacer(6)>> ELSE << >>)
       \o BodyElements(Tail(paras), style)

RECURSIVE MetaParagraphs(_, _)
MetaParagraphs(lines, style) ==
  IF lines = << >> THEN << >>
  ELSE <<Para(Head(lines), style)>> \o MetaParagraphs(Tail(lines), style)

\* StoryExportService._build_pdf_elements
BuildPdfElements(self, story, t) ==
  <<Para(Line("Title", StrOr(story.title, Str_UntitledStory)), self.title_style),
    Spacer(20)>>
  \o MetaParagraphs(
       <<Line("Author", story.user),
         Line("Created", story.created_at),
         Line("Genre", GenreDisplay(story.genre)),
         Line("Length", story.length),
         Line("Tone", story.tone),
         Line("Word Count", WordCount(story.content))>>
       \o (IF Truthy(story.rating) THEN <<Line("Rating", story.rating[1])>> ELSE << >>)
       \o (IF story.ai_model_used # TemplateSentinel
           THEN <<Line("Generated with", story.ai_model_used)>> ELSE << >>),
       self.meta_style)
  \o <<Spacer(10), Para(Line("Keywords", story.keywords), self.keywords_style),
       Spacer(20)>>
  \o BodyElements(SplitBlankLines(story.content, << >>), self.content_style)
  \o <<Spacer(30),
       Para(Line("Exported from AI Story Generator on", t), self.meta_style)>>

GenerateHtmlContentCountsTitle(story, t) ==
  [template |-> "exports/story_export.html", story |-> story, export_date |-> t,
   word_count |-> WordCount(story.title)]

\* StoryExportService._generate_html_content: the context handed to the template
GenerateHtmlContent(story, t) ==
  [template |-> "exports/story_export.html", story |-> story, export_date |-> t,
   word_count |-> WordCount(story.content)]

\* the rendering of one story in one of the three formats
Render(self, story, fmt, t) ==
  CASE fmt = "txt" -> [fmt |-> "txt", id |-> story.id, out |-> GenerateTxtContent(story, t)]
    [] fmt = "pdf" -> [fmt |-> "pdf", id |-> story.id, out |-> BuildPdfElements(self, story, t)]
    [] fmt = "html" -> [fmt |-> "html", id |-> story.id, out |-> GenerateHtmlContent(story, t)]

(* ----------------------- statistics aggregator ------------------------- *)
RECURSIVE SumWordCounts(_)
\* sum(story.word_count for story in stories)
SumWordCounts(ss) ==
  IF ss = << >> THEN 0 ELSE WordCount(Head(ss).content) + SumWordCounts(Tail(ss))

RECURSIVE RatedStories(_)
\* [s for s in stories if s.rating]
RatedStories(ss) ==
  IF ss = << >> THEN << >>
  ELSE (IF Truthy(Head(ss).rating) THEN <<Head(ss)>> ELSE << >>) \o RatedStories(Tail(ss))

RECURSIVE SumRatings(_)
SumRatings(ss) ==
  IF ss = << >> THEN 0 ELSE Head(ss).rating[1] + SumRatings(Tail(ss))

\* round(num / den, 1) in tenths, for num >= 0 and den > 0: Python rounds the
\* exact ties (multiples of 1/4 here, exactly representable) to the even digit
RoundTenths(num, den) ==
  LET q == (10 * num) \div den
      r == (10 * num) % den
  IN IF 2 * r < den THEN q
     ELSE IF 2 * r > den THEN q + 1
     ELSE IF q % 2 = 0 THEN q ELSE q + 1

CountWhere(ss, P(_)) == Cardinality({i \in 1..Len(ss) : P(ss[i])})

MinCreated(ss) == CHOOSE m \in {ss[i].created_at : i \in 1..Len(ss)} :
                    \A i \in 1..Len(ss) : m <= ss[i].created_at
MaxCreated(ss) == CHOOSE m \in {ss[i].created_at : i \in 1..Len(ss)} :
                    \A i \in 1..Len(ss) : m >= ss[i].created_at

EmptyDict == [keys |-> {}]

\* StoryExportService._generate_collection_metadata
GenerationMethodsCountsAll(ss) ==
  [ai_generated |-> CountWhere(ss, LAMBDA s : s.ai_model_used # TemplateSentinel),
   template_based |-> Len(ss)]

\* ai_stories and the 'generation_methods' entry of the statistics
GenerationMethods(ss) ==
  LET ai_stories == CountWhere(ss, LAMBDA s : s.ai_model_used # TemplateSentinel)
  IN [ai_generated |-> ai_stories, template_based |-> Len(ss) - ai_stories]

GenerateCollectionMetadata(ss, t) ==
  IF ss = << >> THEN EmptyDict
  ELSE
  LET total_stories == Len(ss)
      total_words == SumWordCounts(ss)
      rated == RatedStories(ss)
      labels == {GenreDisplay(ss[i].genre) : i \in 1..Len(ss)}
  IN
  [keys |-> {"collection_info", "statistics", "stories"},
   collection_info |->
     [title |-> <<"Story Collection - ", ss[1].user>>,
      author |-> ss[1].user,
      export_date |-> t,
      total_stories |-> total_stories,
      date_range |-> [oldest |-> MinCreated(ss), newest |-> MaxCreated(ss)]],
   statistics |->
     [total_words |-> total_words,
      average_words_per_story |-> RoundTenths(total_words, total_stories),
      average_rating |->
        IF rated = << >> THEN None
        ELSE IF SumRatings(rated) = 0 THEN None
        ELSE Some(RoundTenths(SumRatings(rated), Len(rated))),
      genre_distribution |->
        [g \in labels |-> CountWhere(ss, LAMBDA s : GenreDisplay(s.genre) = g)],
      generation_methods |-> GenerationMethods(ss)],
   stories |->
     [i \in 1..Len(ss) |->
        [id |-> ss[i].id,
         title |-> StrOr(ss[i].title, Str_Untitled),
         created_at |-> ss[i].created_at,
         genre |-> GenreDisplay(ss[i].genre),
         word_count |-> WordCount(ss[i].content),
         rating |-> ss[i].rating,
         is_favorite |-> ss[i].is_favorite,
         ai_model |-> ss[i].ai_model_used]]]

(* --------------------------- stories (database) ------------------------ *)
\* the row written by Story.objects.create(...) in generate_story; created_at is
\* the creation instant, which grows with the id
NewStory(id, u, content, genre, model) ==
  [id |-> id, user |-> u, title |-> AutoTitle(<< >>, content), content |-> content,
   keywords |-> "keywords", genre |-> genre, length |-> "short", tone |-> "happy",
   created_at |-> id, is_public |-> FALSE, is_favorite |-> FALSE, rating |-> None,
   ai_model_used |-> model, collection |-> None]

RECURSIVE OrderByCreatedDesc(_)
\* order_by('-created_at') (also Story.Meta.ordering)
OrderByCreatedDesc(rows) ==
  IF rows = {} THEN << >>
  ELSE LET newest == CHOOSE r \in rows : \A o \in rows : o.created_at <= r.created_at
       IN <<newest>> \o OrderByCreatedDesc(rows \ {newest})

FilterIdsAnyUser(rows, ids, u) == {r \in rows : r.id \in ids}

\* Story.objects.filter(id__in=story_ids, user=request.user)
FilterIdsUser(rows, ids, u) == {r \in rows : r.id \in ids /\ r.user = u}
\* Story.objects.filter(user=user)
FilterUser(rows, u) == {r \in rows : r.user = u}

(* ------------------------ profiles (database) ------------------------- *)
\* the statistics of a UserProfile as UserProfile.objects.create(user=...) sets
\* them; average_rating is None or the fraction <<sum, count>>
NewProfile == [stories_generated |-> 0, favorite_stories_count |-> 0,
               average_rating |-> None]

RECURSIVE RatingSum(_)
\* the sum Avg('rating') divides
RatingSum(rows) ==
  IF rows = {} THEN 0
  ELSE LET r == CHOOSE x \in rows : TRUE
       IN r.rating[1] + RatingSum(rows \ {r})

\* UserProfile.update_stats followed by self.save()
UpdateStats(profile, rows, u) ==
  LET user_stories == FilterUser(rows, u)
      rated_stories == {r \in user_stories : r.rating # None}
  IN [stories_generated |-> Cardinality(user_stories),
      favorite_stories_count |-> Cardinality({r \in user_stories : r.is_favorite}),
      average_rating |->
        IF rated_stories # {}
        THEN Some(<<RatingSum(rated_stories), Cardinality(rated_stories)>>)
        ELSE profile.average_rating]

(* ----------------------- collections (database) ----------------------- *)
Str_MyStories == "My Stories"

\* a StoryCollection row; is_default is False unless given
NewCollection(id, u, name, is_default) ==
  [id |-> id, user |-> u, name |-> name, is_default |-> is_default]

\* StoryCollection.Meta.unique_together = ['user', 'name']: the insert or update
\* that would give a user two collections of one name raises IntegrityError
NameTaken(rows, u, name, except) ==
  \E r \in rows : r.user = u /\ r.name = name /\ r.id # except

RECURSIVE RegisterAll(_, _)
\* the collection table after each user of a set was created in turn
RegisterAll(us, table) ==
  IF us = {} THEN table
  ELSE LET u == CHOOSE x \in us : TRUE
       IN RegisterAll(us \ {u},
            [rows |-> table.rows \cup {NewCollection(table.next, u, Str_MyStories, TRUE)},
             next |-> table.next + 1])

NoCollections == [rows |-> {}, next |-> 1]

(* ------------------------------ responses ------------------------------ *)
NoName == [kind |-> "none", slug |-> << >>, id |-> 0, ext |-> ""]
\* f"{slugify(story.title or 'story')}_{story.id}.<ext>"
StoryFilename(story, ext) ==
  [kind |-> "story", slug |-> Slugify(StrOr(story.title, Str_story)), id |-> story.id,
   ext |-> ext]
\* f"stories_collection_{timestamp}.zip"
ZipFilename(t) == [kind |-> "stories_collection", slug |-> << >>, id |-> t, ext |-> "zip"]
CollectionInfoName == [kind |-> "collection_info", slug |-> << >>, id |-> 0, ext |-> "json"]

Digits == <<"0", "1", "2", "3", "4", "5", "6", "7", "8", "9">>

RECURSIVE Decimal(_)
\* str(story.id) inside the f-string
Decimal(n) ==
  IF n < 10 THEN <<Digits[n + 1]>>
  ELSE Decimal(n \div 10) \o <<Digits[(n % 10) + 1]>>

\* the characters of a short literal
CharsOf(word) ==
  CASE word = "txt" -> <<"t", "x", "t">>
    [] word = "pdf" -> <<"p", "d", "f">>
    [] word = "html" -> <<"h", "t", "m", "l">>
    [] word = "json" -> <<"j", "s", "o", "n">>
    [] word = "collection_info" ->
         <<"c", "o", "l", "l", "e", "c", "t", "i", "o", "n", "_", "i", "n", "f", "o">>
    [] OTHER -> << >>

FilenameTextOmitsId(name) ==
  IF name.kind = "story" THEN name.slug \o <<".">> \o CharsOf(name.ext)
  ELSE CharsOf(name.kind) \o <<".">> \o CharsOf(name.ext)

\* the text of an entry name: f"{slug}_{story.id}.txt" or 'collection_info.json'
FilenameText(name) ==
  IF name.kind = "story"
  THEN name.slug \o <<"_">> \o Decimal(name.id) \o <<".">> \o CharsOf(name.ext)
  ELSE CharsOf(name.kind) \o <<".">> \o CharsOf(name.ext)

NoResp == [status |-> 0, content_type |-> "", disposition |-> "", filename |-> NoName,
           error |-> "", body |-> << >>]

\* HttpResponse(content, content_type=...) with the Content-Disposition header
Attachment(ctype, filename, body) ==
  [status |-> 200, content_type |-> ctype, disposition |-> "attachment",
   filename |-> filename, error |-> "", body |-> body]

\* rest_framework Response({'error': msg}, status=...)
ErrorResponse(status, msg) ==
  [status |-> status, content_type |-> "application/json", disposition |-> "",
   filename |-> NoName, error |-> msg, body |-> << >>]

\* rest_framework Response(data, status=...)
JsonResponse(status, data) ==
  [status |-> status, content_type |-> "application/json", disposition |-> "",
   filename |-> NoName, error |-> "", body |-> <<data>>]

MsgInvalidFormat == "Invalid format. Supported formats: txt, pdf, html"
MsgExportFailed == "Export failed. Please try again."
MsgNoIds == "No story IDs provided"
MsgNoValid == "No valid stories found"
MsgNoStories == "No stories found for export"
MsgNotFound == "Not found."
MsgNoCredentials == "Authentication credentials were not provided."

NoFailure == [kind |-> "", msg |-> ""]
Failures == {[kind |-> k, msg |-> "failure detail"] : k \in ErrKinds}
Outcomes == {NoFailure} \cup Failures

ContentTypeOf(fmt) ==
  CASE fmt = "txt" -> "text/plain" [] fmt = "pdf" -> "application/pdf"
    [] fmt = "html" -> "text/html"

ContentTypeAlwaysPlain(fmt) == "text/plain"

\* the content_type each export_story_<fmt> method gives its HttpResponse
SingleContentType(fmt) == ContentTypeOf(fmt)

\* export_story_txt / export_story_pdf / export_story_html: the response, or the
\* exception the method logs and re-raises
ExportStorySvc(self, story, fmt, t, f) ==
  IF f # NoFailure THEN [exc |-> f, resp |-> NoResp]
  ELSE [exc |-> NoFailure,
        resp |-> Attachment(SingleContentType(fmt), StoryFilename(story, fmt),
                            <<Render(self, story, fmt, t)>>)]

(* ------------------------------- calls --------------------------------- *)
IdleCall ==
  [pc |-> "idle", fn |-> "", user |-> "", fmt |-> "", ids |-> {}, data |-> << >>,
   qs |-> << >>,
   i |-> 0, zip |-> << >>, rendered |-> 0, logged |-> << >>, exc |-> NoFailure,
   resp |-> NoResp]

ViewFns == {"export_story", "export_multiple_stories", "export_user_collection_view"}

\* a call that has ended: the buffer is gone, what the caller gets is the response
\* or the exception; qs keeps the stories the call was about
Ended(call, exc, resp) ==
  [call EXCEPT !.pc = "done", !.i = 0, !.zip = << >>, !.exc = exc, !.resp = resp]

\* logger.error(...) of the handlers the exception passes through
Logged(call, lines) == [call EXCEPT !.logged = @ \o lines]

PropagateReturnsPartial(call, f, inZip) ==
  Ended(Logged(call, <<"export_multiple_stories_zip">>), NoFailure,
        Attachment("application/zip", ZipFilename(0), call.zip))

PropagateWrapsError(call, f, inZip) ==
  Ended(Logged(call, <<"export_multiple_stories_zip">>),
        [kind |-> "ExportError", msg |-> f.msg], NoResp)

\* where an exception raised in a batch export ends up: inside
\* export_multiple_stories_zip (inZip) or in export_user_collection before it. The
\* service methods log and re-raise, the views turn the exception into a response
Propagate(call, f, inZip) ==
  LET zipLog == IF inZip THEN <<"export_multiple_stories_zip">> ELSE << >>
  IN CASE call.fn = "export_multiple_stories" ->
            Ended(Logged(call, zipLog \o <<"api.export_multiple_stories">>), NoFailure,
                  ErrorResponse(500, MsgExportFailed))
       [] call.fn = "export_user_collection_view" ->
            IF f.kind = "ValueError"
            THEN Ended(Logged(call, zipLog \o <<"export_user_collection">>), NoFailure,
                       ErrorResponse(404, f.msg))
            ELSE Ended(Logged(call, zipLog \o <<"export_user_collection",
                                                "api.export_user_collection">>),
                       NoFailure, ErrorResponse(500, MsgExportFailed))
       [] call.fn = "export_user_collection" ->
            Ended(Logged(call, zipLog \o <<"export_user_collection">>), f, NoResp)
       [] OTHER -> Ended(Logged(call, zipLog), f, NoResp)

ZipWriteStrPrepends(zip, name, data) == <<[name |-> name, data |-> data]>> \o zip

ZipWriteStrTwice(zip, name, data) ==
  Append(Append(zip, [name |-> name, data |-> data]), [name |-> name, data |-> data])

\* zip_file.writestr(filename, content)
ZipWriteStr(zip, name, data) == Append(zip, [name |-> name, data |-> data])

(* ---------------------------- HTTP views ------------------------------- *)
Begin(fn, u, fmt, ids) ==
  [IdleCall EXCEPT !.fn = fn, !.user = u, !.fmt = fmt, !.ids = ids]

\* api.views.export_story (GET stories/<id>/export/<format>/)
ApiExportStory(c, u, id, fmt, f) ==
  /\ calls[c].pc = "idle"
  \* f is the outcome of the rendering, if the request gets that far
  /\ (u = Anonymous \/ FilterIdsUser(stories, {id}, u) = {} \/ fmt \notin Formats)
       => f = NoFailure
  /\ LET call == Begin("export_story", u, fmt, {id})
         found == FilterIdsUser(stories, {id}, u)
         story == CHOOSE r \in found : TRUE
         r == ExportStorySvc(svc, story, fmt, now, f)
     IN IF u = Anonymous
        THEN /\ calls' = [calls EXCEPT ![c] =
                            Ended(call, NoFailure, ErrorResponse(401, MsgNoCredentials))]
             /\ svc' = svc
        ELSE IF found = {}
        THEN /\ calls' = [calls EXCEPT ![c] =
                            Ended(call, NoFailure, ErrorResponse(404, MsgNotFound))]
             /\ svc' = svc
        ELSE IF fmt \in Formats
        THEN /\ calls' = [calls EXCEPT ![c] =
                            Ended([call EXCEPT !.rendered = 1, !.qs = <<story>>,
                                               !.logged = IF r.exc # NoFailure
                                                          THEN <<"export_story_" \o fmt,
                                                                 "api.export_story">>
                                                          ELSE << >>],
                                  NoFailure,
                                  IF r.exc # NoFailure
                                  THEN ErrorResponse(500, MsgExportFailed)
                                  ELSE r.resp)]
             /\ svc' = SelfAfterExport(svc)
        ELSE /\ calls' = [calls EXCEPT ![c] =
                            Ended([call EXCEPT !.qs = <<story>>], NoFailure,
                                  ErrorResponse(400, MsgInvalidFormat))]
             /\ svc' = svc
  /\ UNCHANGED <<stories, nextId, now, mbatch, mout, users, collections, profiles>>

\* api.views.export_multiple_stories (POST export/multiple/) up to the call of the
\* service; the queryset is built here and read by exists(), not yet fetched
ApiExportMultipleStories(c, u, ids, fmt) ==
  /\ calls[c].pc = "idle"
  /\ LET call == Begin("export_multiple_stories", u, fmt, ids)
     IN calls' = [calls EXCEPT ![c] =
          IF u = Anonymous
          THEN Ended(call, NoFailure, ErrorResponse(401, MsgNoCredentials))
          ELSE IF ids = {}
          THEN Ended(call, NoFailure, ErrorResponse(400, MsgNoIds))
          ELSE IF fmt \notin Formats
          THEN Ended(call, NoFailure, ErrorResponse(400, MsgInvalidFormat))
          ELSE IF FilterIdsUser(stories, ids, u) = {}
          THEN Ended(call, NoFailure, ErrorResponse(404, MsgNoValid))
          ELSE [call EXCEPT !.pc = "zip_fetch"]]
  /\ UNCHANGED <<stories, nextId, svc, now, mbatch, mout, users, collections, profiles>>

\* StoryExportService.export_user_collection up to the call of
\* export_multiple_stories_zip: exists() reads the table, the rows are not fetched
UserCollectionStart(call) ==
  IF FilterUser(stories, call.user) = {}
  THEN Propagate(call, [kind |-> "ValueError", msg |-> MsgNoStories], FALSE)
  ELSE [call EXCEPT !.pc = "zip_fetch"]

\* api.views.export_user_collection (GET export/collection/)
ApiExportUserCollection(c, u, fmt) ==
  /\ calls[c].pc = "idle"
  /\ LET call == Begin("export_user_collection_view", u, fmt, {})
     IN calls' = [calls EXCEPT ![c] =
          IF u = Anonymous
          THEN Ended(call, NoFailure, ErrorResponse(401, MsgNoCredentials))
          ELSE IF fmt \notin Formats
          THEN Ended(call, NoFailure, ErrorResponse(400, MsgInvalidFormat))
          ELSE UserCollectionStart(call)]
  /\ UNCHANGED <<stories, nextId, svc, now, mbatch, mout, users, collections, profiles>>

(* --------------------------- service calls ----------------------------- *)
\* a direct call of export_story_txt / export_story_pdf / export_story_html
SvcExportStory(c, story, fmt, f) ==
  /\ calls[c].pc = "idle"
  /\ LET call == Begin("export_story_svc", story.user, fmt, {story.id})
         r == ExportStorySvc(svc, story, fmt, now, f)
     IN calls' = [calls EXCEPT ![c] =
                    Ended([call EXCEPT !.rendered = 1, !.qs = <<story>>,
                                       !.logged = IF r.exc # NoFailure
                                                  THEN <<"export_story_" \o fmt>>
                                                  ELSE << >>],
                          r.exc, r.resp)]
  /\ svc' = SelfAfterExport(svc)
  /\ UNCHANGED <<stories, nextId, now, mbatch, mout, users, collections, profiles>>

\* a direct call of export_multiple_stories_zip(stories, format_type) with a list
SvcExportMultipleStoriesZip(c, batch, fmt) ==
  /\ calls[c].pc = "idle"
  /\ calls' = [calls EXCEPT ![c] =
       [Begin("export_multiple_stories_zip", "", fmt, {}) EXCEPT
          !.pc = "zip_loop", !.qs = batch, !.i = 1]]
  /\ UNCHANGED <<stories, nextId, svc, now, mbatch, mout, users, collections, profiles>>

\* a direct call of export_user_collection(user, format_type)
SvcExportUserCollection(c, u, fmt) ==
  /\ calls[c].pc = "idle"
  /\ calls' = [calls EXCEPT ![c] =
       UserCollectionStart(Begin("export_user_collection", u, fmt, {}))]
  /\ UNCHANGED <<stories, nextId, svc, now, mbatch, mout, users, collections, profiles>>

\* the rows the lazy queryset of the call selects
QueryRows(call) ==
  IF call.fn = "export_multiple_stories"
  THEN FilterIdsUser(stories, call.ids, call.user)
  ELSE FilterUser(stories, call.user)

\* export_multiple_stories_zip: "for story in stories" fetches the queryset
ZipFetch(c) ==
  /\ calls[c].pc = "zip_fetch"
  /\ LET call == calls[c]
     IN calls' = [calls EXCEPT ![c] =
          [call EXCEPT !.pc = "zip_loop", !.qs = OrderByCreatedDesc(QueryRows(call)),
                       !.i = 1]]
  /\ UNCHANGED <<stories, nextId, svc, now, mbatch, mout, users, collections, profiles>>

\* one iteration of the loop of export_multiple_stories_zip
ZipLoop(c, f) ==
  /\ calls[c].pc = "zip_loop"
  /\ calls[c].i <= Len(calls[c].qs)
  /\ calls[c].fmt \notin Formats => f = NoFailure
  /\ LET call == calls[c]
         story == call.qs[call.i]
     IN IF call.fmt \in Formats
        THEN /\ calls' = [calls EXCEPT ![c] =
                  IF f # NoFailure
                  THEN Propagate([call EXCEPT !.rendered = @ + 1], f, TRUE)
                  ELSE [call EXCEPT
                          !.zip = ZipWriteStr(@, StoryFilename(story, call.fmt),
                                              Render(svc, story, call.fmt, now)),
                          !.rendered = @ + 1, !.i = @ + 1]]
             /\ svc' = SelfAfterExport(svc)
        ELSE /\ calls' = [calls EXCEPT ![c] = [call EXCEPT !.i = @ + 1]]
             /\ svc' = svc
  /\ UNCHANGED <<stories, nextId, now, mbatch, mout, users, collections, profiles>>

\* export_multiple_stories_zip after the loop: the metadata entry, the close
\* of the archive and the response
ZipFinish(c, f) ==
  /\ calls[c].pc = "zip_loop"
  /\ calls[c].i > Len(calls[c].qs)
  /\ LET call == calls[c]
         metadata == GenerateCollectionMetadata(call.qs, now)
         archive == ZipWriteStr(call.zip, CollectionInfoName, metadata)
     IN calls' = [calls EXCEPT ![c] =
          IF f # NoFailure THEN Propagate(call, f, TRUE)
          ELSE Ended(call, NoFailure,
                     Attachment("application/zip", ZipFilename(now), archive))]
  /\ UNCHANGED <<stories, nextId, svc, now, mbatch, mout, users, collections, profiles>>

\* the caller has taken the response or the exception
Return(c) ==
  /\ calls[c].pc = "done"
  /\ calls' = [calls EXCEPT ![c] = IdleCall]
  /\ UNCHANGED <<stories, nextId, svc, now, mbatch, mout, users, collections, profiles>>

(* ------------------------- changes of the table ------------------------ *)
\* the text the generator returned (never empty)
CreateContents == {<<"a", " ", "b">>}

\* generate_story: Story.objects.create(user=request.user, ...)
CreateStory(u, content, genre, model) ==
  /\ nextId <= MaxStories
  /\ stories' = stories \cup {NewStory(nextId, u, content, genre, model)}
  /\ nextId' = nextId + 1
  /\ UNCHANGED <<svc, calls, now, mbatch, mout, users, collections, profiles>>

\* StoryDetailView: DELETE stories/<pk>/ by the owner
DeleteStory(id) ==
  /\ \E r \in stories : r.id = id
  /\ stories' = {r \in stories : r.id # id}
  /\ UNCHANGED <<nextId, svc, calls, now, mbatch, mout, users, collections, profiles>>

(* -------------------- the story detail endpoint ------------------------- *)
\* the fields of StorySerializer that a request can write
WritableFields == {"title", "content", "rating", "is_public"}

\* serializer.is_valid() for one field of a PATCH: the text fields are trimmed,
\* the content may not be blank, the rating is any integer or null
FieldValid(field, value) ==
  CASE field = "content" -> Strip(value) # << >>
    [] OTHER -> TRUE

\* serializer.save(): the validated value is set and Story.save() runs
SaveField(row, field, value) ==
  LET set == CASE field = "title" -> [row EXCEPT !.title = Strip(value)]
               [] field = "content" -> [row EXCEPT !.content = Strip(value)]
               [] field = "rating" -> [row EXCEPT !.rating = value]
               [] field = "is_public" -> [row EXCEPT !.is_public = value]
  IN [set EXCEPT !.title = AutoTitle(set.title, set.content)]

\* StoryDetailView: PATCH stories/<pk>/ with one field
ApiUpdateStory(c, u, id, field, value) ==
  /\ calls[c].pc = "idle"
  /\ LET call == Begin("story_detail_update", u, "", {id})
         found == FilterIdsUser(stories, {id}, u)
         row == CHOOSE r \in found : TRUE
         saved == SaveField(row, field, value)
     IN IF u = Anonymous
        THEN /\ calls' = [calls EXCEPT ![c] =
                            Ended(call, NoFailure, ErrorResponse(401, MsgNoCredentials))]
             /\ stories' = stories
        ELSE IF found = {}
        THEN /\ calls' = [calls EXCEPT ![c] =
                            Ended(call, NoFailure, ErrorResponse(404, MsgNotFound))]
             /\ stories' = stories
        ELSE IF ~FieldValid(field, value)
        THEN /\ calls' = [calls EXCEPT ![c] =
                            Ended([call EXCEPT !.qs = <<row>>, !.data = <<field, value>>],
                                  NoFailure,
                                  ErrorResponse(400, field))]
             /\ stories' = stories
        ELSE /\ calls' = [calls EXCEPT ![c] =
                            Ended([call EXCEPT !.qs = <<row>>, !.data = <<field, value>>],
                                  NoFailure, JsonResponse(200, saved))]
             /\ stories' = (stories \ {row}) \cup {saved}
  /\ UNCHANGED <<nextId, svc, now, mbatch, mout, users, collections, profiles>>

\* StoryDetailView: GET stories/<pk>/
ApiGetStory(c, u, id) ==
  /\ calls[c].pc = "idle"
  /\ LET call == Begin("story_detail", u, "", {id})
         found == FilterIdsUser(stories, {id}, u)
         row == CHOOSE r \in found : TRUE
     IN calls' = [calls EXCEPT ![c] =
          IF u = Anonymous
          THEN Ended(call, NoFailure, ErrorResponse(401, MsgNoCredentials))
          ELSE IF found = {}
          THEN Ended(call, NoFailure, ErrorResponse(404, MsgNotFound))
          ELSE Ended([call EXCEPT !.qs = <<row>>], NoFailure, JsonResponse(200, row))]
  /\ UNCHANGED <<stories, nextId, svc, now, mbatch, mout, users, collections, profiles>>

(* ------------------------------ story list ----------------------------- *)
\* StoryListView.get_queryset: userParam, genre and favorites are the query
\* parameters, "" when the parameter is not given
ListQueryset(rows, u, userParam, genre, favorites) ==
  LET all == rows
      mine == IF u # Anonymous /\ userParam = "me" THEN {r \in all : r.user = u}
              ELSE all
      public == IF u = Anonymous THEN {r \in mine : r.is_public} ELSE mine
      ofGenre == IF genre # "" THEN {r \in public : r.genre = genre} ELSE public
      favs == IF favorites = "true" /\ u # Anonymous
              THEN {r \in ofGenre : r.user = u /\ r.is_favorite}
              ELSE ofGenre
  IN OrderByCreatedDesc(favs)

\* StoryListView (GET stories/): IsAuthenticatedOrReadOnly lets everyone read
ApiListStories(c, u, userParam, genre, favorites) ==
  /\ calls[c].pc = "idle"
  /\ LET call == [Begin("story_list", u, "", {}) EXCEPT
                    !.data = <<userParam, genre, favorites>>]
         results == ListQueryset(stories, u, userParam, genre, favorites)
     IN calls' = [calls EXCEPT ![c] =
                    Ended([call EXCEPT !.qs = results], NoFailure,
                          JsonResponse(200, results))]
  /\ UNCHANGED <<stories, nextId, svc, now, mbatch, mout, users, collections, profiles>>

(* ------------------------------ rate_story ----------------------------- *)
\* request.data.get('rating'): nothing, or a JSON integer, boolean, string or
\* fraction (val is the number a string or a fraction reads as; 0 or 1 for a boolean)
NoRating == [kind |-> "missing", val |-> 0]
RatingPayloads ==
  {NoRating}
    \cup {[kind |-> "int", val |-> n] : n \in {-1, 0, 1, 5, 6}}
    \cup {[kind |-> "bool", val |-> n] : n \in {0, 1}}
    \cup {[kind |-> "str", val |-> 3], [kind |-> "float", val |-> 4]}

\* not rating: None, 0, False and 0.0 are falsy (a string of a digit is not)
PayloadFalsy(p) == p.kind = "missing" \/ (p.kind \in {"int", "bool", "float"} /\ p.val = 0)

\* isinstance(rating, int): bool is a subclass of int
IsInstanceInt(p) == p.kind \in {"int", "bool"}

\* the test of rate_story that answers 400
RatingRejected(p) ==
  PayloadFalsy(p) \/ ~IsInstanceInt(p) \/ p.val < 1 \/ p.val > 5

MsgRatingRange == "Rating must be an integer between 1 and 5"
MsgRated == "Story rated successfully"

\* api.views.rate_story (POST stories/<id>/rate/)
ApiRateStory(c, u, id, p) ==
  /\ calls[c].pc = "idle"
  /\ LET call == [Begin("rate_story", u, "", {id}) EXCEPT !.data = <<p>>]
         found == FilterIdsUser(stories, {id}, u)
         row == CHOOSE r \in found : TRUE
         saved == [row EXCEPT !.rating = Some(p.val),
                              !.title = AutoTitle(row.title, row.content)]
     IN IF u = Anonymous
        THEN /\ calls' = [calls EXCEPT ![c] =
                            Ended(call, NoFailure, ErrorResponse(401, MsgNoCredentials))]
             /\ stories' = stories
        ELSE IF found = {}
        THEN /\ calls' = [calls EXCEPT ![c] =
                            Ended(call, NoFailure, ErrorResponse(404, MsgNotFound))]
             /\ stories' = stories
        ELSE IF RatingRejected(p)
        THEN /\ calls' = [calls EXCEPT ![c] =
                            Ended([call EXCEPT !.qs = <<row>>], NoFailure,
                                  ErrorResponse(400, MsgRatingRange))]
             /\ stories' = stories
        ELSE /\ calls' = [calls EXCEPT ![c] =
                            Ended([call EXCEPT !.qs = <<row>>], NoFailure,
                                  JsonResponse(200, MsgRated))]
             /\ stories' = (stories \ {row}) \cup {saved}
  /\ profiles' =
       IF u # Anonymous /\ FilterIdsUser(stories, {id}, u) # {} /\ ~RatingRejected(p)
       THEN [profiles EXCEPT ![u] = UpdateStats(@, stories', u)]
       ELSE profiles
  /\ UNCHANGED <<nextId, svc, now, mbatch, mout, users, collections>>

(* ---------------------------- toggle_favorite -------------------------- *)
\* api.views.toggle_favorite (POST stories/<id>/favorite/)
ApiToggleFavorite(c, u, id) ==
  /\ calls[c].pc = "idle"
  /\ LET call == Begin("toggle_favorite", u, "", {id})
         found == FilterIdsUser(stories, {id}, u)
         row == CHOOSE r \in found : TRUE
         saved == [row EXCEPT !.is_favorite = ~row.is_favorite,
                              !.title = AutoTitle(row.title, row.content)]
     IN IF u = Anonymous
        THEN /\ calls' = [calls EXCEPT ![c] =
                            Ended(call, NoFailure, ErrorResponse(401, MsgNoCredentials))]
             /\ UNCHANGED <<stories, profiles>>
        ELSE IF found = {}
        THEN /\ calls' = [calls EXCEPT ![c] =
                            Ended(call, NoFailure, ErrorResponse(404, MsgNotFound))]
             /\ UNCHANGED <<stories, profiles>>
        ELSE /\ calls' = [calls EXCEPT ![c] =
                            Ended([call EXCEPT !.qs = <<row>>], NoFailure,
                                  JsonResponse(200, saved.is_favorite))]
             /\ stories' = (stories \ {row}) \cup {saved}
             /\ profiles' = [profiles EXCEPT ![u] = UpdateStats(@, stories', u)]
  /\ UNCHANGED <<nextId, svc, now, mbatch, mout, users, collections>>

(* ---------------------------- generate_story --------------------------- *)
MsgGenerationFailed == "Story generation failed. Please try again."
MsgKeywords == "keywords"

\* the ways a generation request takes through the generator: the
\* X-Force-Template header, the AI path, the AI path raising and the fallback
GenPaths == {"force_template", "ai", "fallback"}

Str_TemplateBased == "template-based"
Str_ClaudeSonnet == "claude-sonnet-4"
ClaudeMarker == "PUTER_CLAUDE_GENERATION||"

\* PuterAIStoryGenerator._generate_simple: content is the filled template, f the
\* exception it raises, if any
GenerateSimple(content, f) ==
  [exc |-> f, content |-> content, ai_model_used |-> Str_TemplateBased,
   generation_method |-> "template"]

\* PuterAIStoryGenerator._generate_with_claude: the marker and the prompt, or
\* the template when preparing the prompt raised
GenerateWithClaude(content, aiRaises, f) ==
  IF aiRaises THEN GenerateSimple(content, f)
  ELSE [exc |-> NoFailure, content |-> <<ClaudeMarker, "a">>,
        ai_model_used |-> Str_ClaudeSonnet, generation_method |-> "ai"]

\* PuterAIStoryGenerator.is_available: client_available is set in __init__
ClientAvailable == TRUE

PuterGenerateStoryNoFallback(content, aiRaises, f) ==
  IF aiRaises
  THEN [GenerateSimple(content, f) EXCEPT
          !.exc = [kind |-> "Exception", msg |-> "failure detail"]]
  ELSE GenerateWithClaude(content, FALSE, f)

\* PuterAIStoryGenerator.generate_story: an exception of the first attempt is
\* logged and the template generator is called (again)
PuterGenerateStory(content, aiRaises, f) ==
  IF ClientAvailable THEN GenerateWithClaude(content, aiRaises, f)
  ELSE GenerateSimple(content, f)

\* api.views.generate_story (POST generate/): keywordsOk is the verdict of
\* StoryCreateSerializer, coll the 'collection' field of the request (None or an
\* id), path the way through the generator, content the text the template gives,
\* f the exception the template generator raises, late an exception that
\* update_stats raises after Story.objects.create
ApiGenerateStory(c, u, keywordsOk, coll, content, path, f, late) ==
  /\ calls[c].pc = "idle"
  /\ (u = Anonymous \/ ~keywordsOk \/ path = "ai") => f = NoFailure
  /\ (u = Anonymous \/ ~keywordsOk \/ f # NoFailure) => late = NoFailure
  /\ LET result == IF path = "force_template" THEN GenerateSimple(content, f)
                   ELSE PuterGenerateStory(content, path = "fallback", f)
         call == [Begin("generate_story", u, "", {}) EXCEPT
                    !.data = <<coll, result.generation_method>>]
         story == NewStory(nextId, u, result.content, "fantasy", result.ai_model_used)
     IN IF u = Anonymous
        THEN /\ calls' = [calls EXCEPT ![c] =
                            Ended(call, NoFailure, ErrorResponse(401, MsgNoCredentials))]
             /\ UNCHANGED <<stories, nextId>>
        ELSE IF ~keywordsOk
        THEN /\ calls' = [calls EXCEPT ![c] =
                            Ended(call, NoFailure, ErrorResponse(400, MsgKeywords))]
             /\ UNCHANGED <<stories, nextId>>
        ELSE IF result.exc # NoFailure
        THEN /\ calls' = [calls EXCEPT ![c] =
                            Ended(Logged(call, <<"api.generate_story">>), NoFailure,
                                  ErrorResponse(500, MsgGenerationFailed))]
             /\ UNCHANGED <<stories, nextId>>
        ELSE /\ nextId <= MaxStories
             /\ calls' = [calls EXCEPT ![c] =
                            IF late # NoFailure
                            THEN Ended(Logged([call EXCEPT !.qs = <<story>>],
                                              <<"api.generate_story">>), NoFailure,
                                       ErrorResponse(500, MsgGenerationFailed))
                            ELSE Ended([call EXCEPT !.qs = <<story>>], NoFailure,
                                       JsonResponse(201, story))]
             /\ stories' = stories \cup {story}
             /\ nextId' = nextId + 1
  /\ profiles' =
       IF u # Anonymous /\ keywordsOk /\ f = NoFailure /\ late = NoFailure
       THEN [profiles EXCEPT ![u] = UpdateStats(@, stories', u)]
       ELSE profiles
  /\ UNCHANGED <<svc, now, mbatch, mout, users, collections>>

(* ----------------------- users and collections ------------------------- *)
CollectionNames == {Str_MyStories, "Other"}

\* StoryCollection.objects.create(...) / collection.save() of a new row
InsertCollection(table, u, name, is_default) ==
  [rows |-> table.rows \cup {NewCollection(table.next, u, name, is_default)},
   next |-> table.next + 1]

\* register: UserCreationForm.save() and the post_save signal
\* create_default_collection
Register(u) ==
  /\ u \notin users
  /\ collections.next <= MaxCols
  /\ users' = users \cup {u}
  /\ collections' = InsertCollection(collections, u, Str_MyStories, TRUE)
  /\ profiles' = [profiles EXCEPT ![u] = NewProfile]
  /\ UNCHANGED <<stories, nextId, svc, calls, now, mbatch, mout>>

\* stories.views.create_collection (POST): the form has no is_default field
CreateCollection(u, name) ==
  /\ u \in users
  /\ collections.next <= MaxCols
  /\ ~NameTaken(collections.rows, u, name, 0)
  /\ collections' = InsertCollection(collections, u, name, FALSE)
  /\ UNCHANGED <<stories, nextId, svc, calls, now, mbatch, mout, users, profiles>>

\* stories.views.edit_collection (POST): the name changes, is_default stays
EditCollection(u, id, name) ==
  /\ \E row \in collections.rows :
       /\ row.id = id /\ row.user = u
       /\ ~NameTaken(collections.rows, u, name, id)
       /\ collections' = [collections EXCEPT
                            !.rows = (@ \ {row}) \cup {[row EXCEPT !.name = name]}]
  /\ UNCHANGED <<stories, nextId, svc, calls, now, mbatch, mout, users, profiles>>

\* stories.views.delete_collection (POST); Story.collection is SET_NULL
DeleteCollection(u, id) ==
  /\ \E row \in collections.rows :
       /\ row.id = id /\ row.user = u
       /\ collections' = [collections EXCEPT !.rows = @ \ {row}]
  /\ stories' = {IF r.collection = Some(id) THEN [r EXCEPT !.collection = None] ELSE r :
                   r \in stories}
  /\ UNCHANGED <<nextId, svc, calls, now, mbatch, mout, users, profiles>>

GetOwnCollectionAnyUser(rows, id, u) == {r \in rows : r.id = id}

\* StoryCollection.objects.get(id=collection_id, user=request.user): the row, if
\* there is one
GetOwnCollection(rows, id, u) == {r \in rows : r.id = id /\ r.user = u}

MsgCollectionNotFound == "Collection not found"

\* stories.views.move_to_collection (POST) up to the update: colId is the
\* 'collection_id' of the request, None when it is missing or null
MoveCheck(c, u, ids, colId) ==
  /\ calls[c].pc = "idle"
  /\ u \in users
  /\ LET call == [Begin("move_to_collection", u, "", ids) EXCEPT !.data = <<colId>>]
     IN calls' = [calls EXCEPT ![c] =
          IF Truthy(colId) /\ GetOwnCollection(collections.rows, colId[1], u) = {}
          THEN Ended(call, NoFailure, ErrorResponse(404, MsgCollectionNotFound))
          ELSE [call EXCEPT !.pc = "move_update",
                            !.data = <<IF Truthy(colId) THEN colId ELSE None>>]]
  /\ UNCHANGED <<stories, nextId, svc, now, mbatch, mout, users, collections, profiles>>

\* move_to_collection: Story.objects.filter(id__in=story_ids,
\* user=request.user).update(collection=collection); the foreign key refuses a
\* collection that was deleted since it was read
MoveUpdate(c) ==
  /\ calls[c].pc = "move_update"
  /\ LET call == calls[c]
         target == call.data[1]
         mine == FilterIdsUser(stories, call.ids, call.user)
         gone == target # None /\ \A r \in collections.rows : r.id # target[1]
     IN IF gone /\ mine # {}
        THEN /\ calls' = [calls EXCEPT ![c] =
                            Ended(call, [kind |-> "IntegrityError", msg |-> "FOREIGN KEY"],
                                  NoResp)]
             /\ stories' = stories
        ELSE /\ calls' = [calls EXCEPT ![c] =
                            Ended(call, NoFailure, JsonResponse(200, Cardinality(mine)))]
             /\ stories' = {IF r \in mine THEN [r EXCEPT !.collection = target] ELSE r :
                              r \in stories}
  /\ UNCHANGED <<nextId, svc, now, mbatch, mout, users, collections, profiles>>

\* the user's collections with is_default set
DefaultsOf(rows, u) == {r \in rows : r.user = u /\ r.is_default}

\* stories.views.generate_story_view (POST) up to the test of the query
\* filter(user=request.user, is_default=True).first()
GenerateViewCheck(c, u, valid) ==
  /\ calls[c].pc = "idle"
  /\ u \in users
  /\ LET call == Begin("generate_story_view", u, "", {})
         found == DefaultsOf(collections.rows, u)
         first == CHOOSE r \in found : \A o \in found : r.id <= o.id
     IN calls' = [calls EXCEPT ![c] =
          IF ~valid THEN Ended(call, NoFailure, JsonResponse(200, "stories/generate.html"))
          ELSE IF found # {} THEN Ended(call, NoFailure, JsonResponse(200, first.id))
          ELSE [call EXCEPT !.pc = "create_default"]]
  /\ UNCHANGED <<stories, nextId, svc, now, mbatch, mout, users, collections, profiles>>

\* generate_story_view: no default collection was found, one is created
GenerateViewCreate(c) ==
  /\ calls[c].pc = "create_default"
  /\ LET call == calls[c]
     IN IF NameTaken(collections.rows, call.user, Str_MyStories, 0)
        THEN /\ calls' = [calls EXCEPT ![c] =
                            Ended(call, [kind |-> "IntegrityError", msg |-> "UNIQUE"],
                                  NoResp)]
             /\ collections' = collections
        ELSE /\ collections.next <= MaxCols
             /\ calls' = [calls EXCEPT ![c] =
                            Ended(call, NoFailure, JsonResponse(200, collections.next))]
             /\ collections' = InsertCollection(collections, call.user, Str_MyStories, TRUE)
  /\ UNCHANGED <<stories, nextId, svc, now, mbatch, mout, users, profiles>>

\* datetime.now() moves on between the calls
Tick ==
  /\ now < MaxTime
  /\ now' = now + 1
  /\ UNCHANGED <<stories, nextId, svc, calls, mbatch, mout, users, collections,
                 profiles>>

(* ------------------- the aggregator on its own -------------------------- *)
Contents == UNION {[1..n -> ContentChars] : n \in 0..MaxLen}

\* one more story of the batch, with the content and the rating it has in the table
MetaAdd(content, rating) ==
  /\ Len(mbatch) < MaxBatch
  /\ ~mout.done
  /\ mbatch' = Append(mbatch,
       [NewStory(Len(mbatch) + 1, "alice", content, "fantasy", TemplateSentinel)
          EXCEPT !.rating = rating])
  /\ UNCHANGED <<stories, nextId, svc, calls, now, mout, users, collections, profiles>>

\* _generate_collection_metadata(stories)
MetaAggregate ==
  /\ ~mout.done
  /\ mout' = [done |-> TRUE, exc |-> NoFailure,
               meta |-> GenerateCollectionMetadata(mbatch, now)]
  /\ UNCHANGED <<stories, nextId, svc, calls, now, mbatch, users, collections,
                 profiles>>

MetaReset ==
  /\ mout.done
  /\ mbatch' = << >>
  /\ mout' = [done |-> FALSE, exc |-> NoFailure, meta |-> EmptyDict]
  /\ UNCHANGED <<stories, nextId, svc, calls, now, users, collections, profiles>>

\* one more story of the batch, of any genre, model and rating
KindAdd(genre, model, rating) ==
  /\ Len(mbatch) < MaxBatch
  /\ ~mout.done
  /\ mbatch' = Append(mbatch,
       [NewStory(Len(mbatch) + 1, "alice", <<"a">>, genre, model)
          EXCEPT !.rating = rating])
  /\ UNCHANGED <<stories, nextId, svc, calls, now, mout, users, collections, profiles>>

(* --------------------------- specifications ---------------------------- *)
Slots == {1}
Workers == 1..MaxWorkers

InitWith(slots, rows) ==
  /\ stories = rows
  /\ nextId = Cardinality(rows) + 1
  /\ svc = SetupCustomStyles
  /\ calls = [c \in slots |-> IdleCall]
  /\ now = 0
  /\ mbatch = << >>
  /\ mout = [done |-> FALSE, exc |-> NoFailure, meta |-> EmptyDict]
  /\ users = Users
  /\ collections = RegisterAll(Users, NoCollections)
  /\ profiles = [u \in Users |-> NewProfile]

\* the lists of up to MaxBatch different stories of the table, in any order
Batches(rows) ==
  UNION {{b \in [1..n -> rows] : \A i, j \in 1..n : b[i] = b[j] => i = j} :
           n \in 0..MaxBatch}

\* one request or service call at a time, while the table changes under it
Init == InitWith(Slots, {})

Next ==
  \/ \E u \in Users, content \in CreateContents :
       CreateStory(u, content, "fantasy", TemplateSentinel)
  \/ \E id \in 1..MaxStories : DeleteStory(id)
  \/ \E c \in DOMAIN calls, u \in Users \cup {Anonymous}, id \in 1..MaxStories,
        fmt \in RequestFormats, f \in Outcomes : ApiExportStory(c, u, id, fmt, f)
  \/ \E c \in DOMAIN calls, u \in Users \cup {Anonymous}, ids \in SUBSET (1..MaxStories),
        fmt \in RequestFormats : ApiExportMultipleStories(c, u, ids, fmt)
  \/ \E c \in DOMAIN calls, u \in Users \cup {Anonymous}, fmt \in RequestFormats :
       ApiExportUserCollection(c, u, fmt)
  \/ \E c \in DOMAIN calls, story \in stories, fmt \in Formats, f \in Outcomes :
       SvcExportStory(c, story, fmt, f)
  \/ \E c \in DOMAIN calls, batch \in Batches(stories), fmt \in RequestFormats :
       SvcExportMultipleStoriesZip(c, batch, fmt)
  \/ \E c \in DOMAIN calls, u \in Users, fmt \in RequestFormats :
       SvcExportUserCollection(c, u, fmt)
  \/ \E c \in DOMAIN calls : ZipFetch(c)
  \/ \E c \in DOMAIN calls, f \in Outcomes : ZipLoop(c, f)
  \/ \E c \in DOMAIN calls, f \in Outcomes : ZipFinish(c, f)
  \/ \E c \in DOMAIN calls : Return(c)

Spec == Init /\ [][Next]_vars

\* the aggregator applied to every batch of up to MaxBatch stories
NextMeta ==
  \/ \E content \in Contents, rating \in Ratings : MetaAdd(content, rating)
  \/ MetaAggregate
  \/ MetaReset

SpecMeta == Init /\ [][NextMeta]_vars

\* concurrent calls of the shared export_service on stories that do not change
ConcStories == {NewStory(1, "alice", <<"a">>, "fantasy", "claude-sonnet-4"),
                NewStory(2, "alice", <<"a", " ", "b">>, "sci_fi", TemplateSentinel)}
ConcBatches == {b \in [1..2 -> ConcStories] : b[1].id # b[2].id}
                 \cup {b \in [1..1 -> ConcStories] : b[1].id = 2}

InitConc == InitWith(Workers, ConcStories)

NextConc ==
  \/ \E c \in DOMAIN calls, story \in stories, fmt \in {"pdf"} :
       SvcExportStory(c, story, fmt, NoFailure)
  \/ \E c \in DOMAIN calls, batch \in ConcBatches, fmt \in {"pdf", "txt"} :
       SvcExportMultipleStoriesZip(c, batch, fmt)
  \/ \E c \in DOMAIN calls : ZipLoop(c, NoFailure)
  \/ \E c \in DOMAIN calls : ZipFinish(c, NoFailure)
  \/ \E c \in DOMAIN calls : Return(c)

SpecConc == InitConc /\ [][NextConc]_vars

\* a Story object built in memory, Story(title=..., content=..., rating=...), as the
\* service methods take it: nothing was saved, so the title is as given
StoryWith(id, title, content, rating, model) ==
  [NewStory(id, "alice", content, "fantasy", model) EXCEPT
     !.title = title, !.rating = rating]

\* the plain-text renderer called twice, at any two instants, on any two stories
RenderSlots == {1, 2}
TwiceStories ==
  {StoryWith(1, title, content, None, model) :
     title \in {<< >>, <<"a">>}, content \in Contents, model \in Models}

InitTwice == InitWith(RenderSlots, {})

NextTwice ==
  \/ \E c \in DOMAIN calls, story \in TwiceStories :
       SvcExportStory(c, story, "txt", NoFailure)
  \/ Tick
  \/ \E c \in DOMAIN calls : Return(c)

SpecTwice == InitTwice /\ [][NextTwice]_vars

\* each renderer applied to every story of a bounded set: with and without a
\* title, a rating, words, and a model other than the template's
RenderStories ==
  {StoryWith(1, title, content, rating, model) :
     title \in {<< >>, <<"a">>}, content \in Contents \cup CreateContents,
     rating \in Ratings, model \in Models}

InitRender == InitWith(Slots, {})

NextRender ==
  \/ \E c \in DOMAIN calls, story \in RenderStories, fmt \in Formats :
       SvcExportStory(c, story, fmt, NoFailure)
  \/ \E c \in DOMAIN calls : Return(c)

SpecRender == InitRender /\ [][NextRender]_vars

\* exports of stories whose content is rewritten through the detail endpoint,
\* also between the steps of a batch export: requests 1 are the exports,
\* requests 2 the updates
StaleStories == {NewStory(1, "alice", <<"a", " ", "b">>, "fantasy", TemplateSentinel),
                 NewStory(2, "alice", <<"a">>, "fantasy", TemplateSentinel)}

InitStale == InitWith(RenderSlots, StaleStories)

NextStale ==
  \/ \E id \in 1..2, content \in Contents : ApiUpdateStory(2, "alice", id, "content", content)
  \/ \E id \in 1..2, fmt \in Formats : ApiExportStory(1, "alice", id, fmt, NoFailure)
  \/ \E fmt \in Formats : ApiExportUserCollection(1, "alice", fmt)
  \/ ZipFetch(1)
  \/ ZipLoop(1, NoFailure)
  \/ ZipFinish(1, NoFailure)
  \/ \E c \in DOMAIN calls : Return(c)

SpecStale == InitStale /\ [][NextStale]_vars

\* the story endpoints of the API, one request at a time
PatchValues(field) ==
  CASE field = "rating" -> {None, Some(0), Some(6)}
    [] field = "is_public" -> {TRUE, FALSE}
    [] field = "title" -> {<< >>}
    [] field = "content" -> {<< >>}

InitApi == InitWith(Slots, {})

NextApi ==
  \/ \E c \in DOMAIN calls, u \in {"alice", Anonymous}, keywordsOk \in BOOLEAN,
        coll \in {None} \cup {Some(r.id) : r \in collections.rows},
        content \in CreateContents, f \in Outcomes :
       ApiGenerateStory(c, u, keywordsOk, coll, content, "force_template", f, NoFailure)
  \/ \E c \in DOMAIN calls, u \in Users \cup {Anonymous}, id \in 1..MaxStories,
        p \in RatingPayloads : ApiRateStory(c, u, id, p)
  \/ \E c \in DOMAIN calls, u \in Users \cup {Anonymous}, id \in 1..MaxStories,
        field \in WritableFields :
       \E value \in PatchValues(field) : ApiUpdateStory(c, u, id, field, value)
  \/ \E c \in DOMAIN calls, u \in Users \cup {Anonymous}, id \in 1..MaxStories :
       ApiGetStory(c, u, id)
  \/ \E c \in DOMAIN calls : Return(c)

SpecApi == InitApi /\ [][NextApi]_vars

\* registration, the collection forms and concurrent posts of the generation form
InitCollections ==
  /\ stories = {}
  /\ nextId = 1
  /\ svc = SetupCustomStyles
  /\ calls = [c \in Workers |-> IdleCall]
  /\ now = 0
  /\ mbatch = << >>
  /\ mout = [done |-> FALSE, exc |-> NoFailure, meta |-> EmptyDict]
  /\ users = {}
  /\ collections = NoCollections
  /\ profiles = [u \in Users |-> NewProfile]

NextCollections ==
  \/ \E u \in Users : Register(u)
  \/ \E u \in Users, name \in CollectionNames : CreateCollection(u, name)
  \/ \E u \in Users, id \in 1..MaxCols, name \in CollectionNames :
       EditCollection(u, id, name)
  \/ \E u \in Users, id \in 1..MaxCols : DeleteCollection(u, id)
  \/ \E c \in DOMAIN calls, u \in Users, valid \in BOOLEAN : GenerateViewCheck(c, u, valid)
  \/ \E c \in DOMAIN calls : GenerateViewCreate(c)
  \/ \E c \in DOMAIN calls : Return(c)

SpecCollections == InitCollections /\ [][NextCollections]_vars

\* batches of two stories with different identifiers and any two titles, given
\* to export_multiple_stories_zip
TitleChars == {"a", "1", "_", "-"}
Titles == UNION {[1..n -> TitleChars] : n \in 0..MaxLen}
NameIds == {1, 2, 12}
NameBatches ==
  {<<StoryWith(i, t1, <<"a">>, None, TemplateSentinel),
     StoryWith(j, t2, <<"a">>, None, TemplateSentinel)>> :
     <<i, j, t1, t2>> \in {q \in NameIds \X NameIds \X Titles \X Titles : q[1] < q[2]}}

InitNames == InitWith(Slots, {})

NextNames ==
  \/ \E c \in DOMAIN calls :
       /\ calls[c].pc = "idle"
       /\ \E batch \in NameBatches : SvcExportMultipleStoriesZip(c, batch, "txt")
  \/ \E c \in DOMAIN calls : ZipLoop(c, NoFailure)
  \/ \E c \in DOMAIN calls : ZipFinish(c, NoFailure)
  \/ \E c \in DOMAIN calls : Return(c)

SpecNames == InitNames /\ [][NextNames]_vars

\* generation requests along every path of the generator, and exports of the
\* stories they created
InitGen == InitWith(Slots, {})

NextGen ==
  \/ \E c \in DOMAIN calls, u \in Users \cup {Anonymous}, keywordsOk \in BOOLEAN,
        content \in CreateContents, path \in GenPaths, f \in Outcomes, late \in Outcomes :
       ApiGenerateStory(c, u, keywordsOk, None, content, path, f, late)
  \/ \E c \in DOMAIN calls, u \in Users, id \in 1..MaxStories, fmt \in {"txt", "pdf"} :
       ApiExportStory(c, u, id, fmt, NoFailure)
  \/ \E c \in DOMAIN calls, u \in Users : ApiExportUserCollection(c, u, "txt")
  \/ \E c \in DOMAIN calls : ZipFetch(c)
  \/ \E c \in DOMAIN calls : ZipLoop(c, NoFailure)
  \/ \E c \in DOMAIN calls : ZipFinish(c, NoFailure)
  \/ \E c \in DOMAIN calls : Return(c)

SpecGen == InitGen /\ [][NextGen]_vars

\* the aggregator applied to batches of stories of every genre and model
KindModels == {TemplateSentinel, Str_TemplateBased, Str_ClaudeSonnet}

NextKinds ==
  \/ \E genre \in Genres, model \in KindModels, rating \in {None, Some(5)} :
       KindAdd(genre, model, rating)
  \/ MetaAggregate
  \/ MetaReset

SpecKinds == Init /\ [][NextKinds]_vars

\* the paged-document renderer applied to stories of every short content made
\* of a letter, spaces and line breaks
PdfChars == {"a", " ", "\n"}
PdfContents == UNION {[1..n -> PdfChars] : n \in 0..(MaxLen + 2)}
PdfStories ==
  {StoryWith(1, title, content, None, TemplateSentinel) :
     title \in {<< >>, <<"a">>}, content \in PdfContents}

NextPdf ==
  \/ \E c \in DOMAIN calls, story \in PdfStories :
       SvcExportStory(c, story, "pdf", NoFailure)
  \/ \E c \in DOMAIN calls : Return(c)

SpecPdf == InitRender /\ [][NextPdf]_vars

\* the story list read by anyone with any query parameters, while the owners
\* publish and withdraw their stories
ListStories ==
  {[NewStory(1, "alice", <<"a">>, "fantasy", Str_TemplateBased) EXCEPT
      !.is_favorite = TRUE],
   [NewStory(2, "bob", <<"a">>, "sci_fi", Str_TemplateBased) EXCEPT
      !.is_public = TRUE]}

InitList == InitWith(Slots, ListStories)

NextList ==
  \/ \E c \in DOMAIN calls, u \in Users \cup {Anonymous}, userParam \in {"", "me"},
        genre \in {""} \cup Genres, favorites \in {"", "true"} :
       ApiListStories(c, u, userParam, genre, favorites)
  \/ \E c \in DOMAIN calls, u \in Users, id \in 1..2, value \in BOOLEAN :
       ApiUpdateStory(c, u, id, "is_public", value)
  \/ \E c \in DOMAIN calls : Return(c)

SpecList == InitList /\ [][NextList]_vars

\* stories are generated and moved between collections while collections are
\* created, renamed and deleted
\* the story_ids of a move request: one story or all of them
MoveIds == {{1}, 1..MaxStories}

NextMove ==
  \/ \E c \in DOMAIN calls, u \in Users :
       ApiGenerateStory(c, u, TRUE, None, <<"a">>, "force_template", NoFailure, NoFailure)
  \/ \E c \in DOMAIN calls, u \in Users, ids \in MoveIds,
        colId \in {None} \cup {Some(k) : k \in 0..MaxCols} : MoveCheck(c, u, ids, colId)
  \/ \E c \in DOMAIN calls : MoveUpdate(c)
  \/ \E u \in Users : CreateCollection(u, "Other")
  \/ \E id \in 1..MaxCols, name \in CollectionNames : EditCollection("alice", id, name)
  \/ \E u \in Users, id \in 1..MaxCols : DeleteCollection(u, id)
  \/ \E c \in DOMAIN calls : Return(c)

SpecMove == Init /\ [][NextMove]_vars

\* the requests that change a user's stories, with and without update_stats:
\* generation, rating and the favourite switch call it, the detail endpoint's
\* PATCH and DELETE do not
NextStats ==
  \/ \E c \in DOMAIN calls, u \in Users :
       ApiGenerateStory(c, u, TRUE, None, <<"a">>, "force_template", NoFailure, NoFailure)
  \/ \E c \in DOMAIN calls, u \in Users, id \in 1..MaxStories,
        p \in {q \in RatingPayloads : q.kind = "int" /\ q.val \in {1, 5}} :
       ApiRateStory(c, u, id, p)
  \/ \E c \in DOMAIN calls, u \in Users, id \in 1..MaxStories :
       ApiToggleFavorite(c, u, id)
  \/ \E c \in DOMAIN calls, u \in Users, id \in 1..MaxStories :
       ApiUpdateStory(c, u, id, "rating", None)
  \/ \E id \in 1..MaxStories : DeleteStory(id)
  \/ \E c \in DOMAIN calls : Return(c)

SpecStats == Init /\ [][NextStats]_vars

(* ------------------------------- claims -------------------------------- *)
Done(c) == calls[c].pc = "done"
IsArchive(resp) == resp.status = 200 /\ resp.content_type = "application/zip"
ServiceBatchFns == {"export_multiple_stories_zip", "export_user_collection"}
BatchFns == ServiceBatchFns \cup {"export_multiple_stories", "export_user_collection_view"}
SingleFns == {"export_story", "export_story_svc"}
ItemEntries(body) == SelectSeq(body, LAMBDA e : e.name.kind = "story")
InfoEntries(body) == SelectSeq(body, LAMBDA e : e.name.kind = "collection_info")
\* a renderer, a write or the aggregator failed (not the emptiness check)
RenderFailed(call) == call.logged # << >> /\ call.logged[1] # "export_user_collection"

\* C1: a service batch export of a non-empty batch in a format outside txt, html,
\* pdf invokes no renderer, skips no item and ends in an error without an archive
C1_UnsupportedFormatIsAnError ==
  \A c \in DOMAIN calls :
    LET call == calls[c] IN
    (call.fn \in ServiceBatchFns /\ call.fmt \notin Formats /\ call.qs # << >>) =>
      /\ call.rendered = 0
      /\ call.pc = "zip_loop" => call.i = 1
      /\ call.pc = "done" => (call.exc # NoFailure /\ call.resp = NoResp)

\* C2: a service batch export of an empty batch ends in an error and returns no
\* response with an archive
C2_EmptyBatchIsAnError ==
  \A c \in DOMAIN calls :
    LET call == calls[c] IN
    (Done(c) /\ call.fn \in ServiceBatchFns /\ call.fmt \in Formats /\ call.qs = << >>) =>
      (call.exc # NoFailure /\ call.resp = NoResp)

\* C3: an archive returned for N stories holds exactly N item entries and exactly
\* one collection_info.json, whose collection_info.total_stories is N
C3_ArchiveHoldsEveryItem ==
  \A c \in DOMAIN calls :
    LET call == calls[c]
        body == call.resp.body
        infos == InfoEntries(body)
    IN (Done(c) /\ call.fn \in BatchFns /\ IsArchive(call.resp)) =>
         /\ Len(ItemEntries(body)) = Len(call.qs)
         /\ Len(infos) = 1
         /\ Len(body) = Len(call.qs) + 1
         /\ IF infos[1].data.keys = {} THEN FALSE
            ELSE infos[1].data.collection_info.total_stories = Len(call.qs)

\* C4: a batch export in which a renderer, a write or the aggregator failed hands
\* no archive bytes to its caller: the service call ends in the exception, the
\* HTTP request in an error response with an empty body
C4_AllOrNothing ==
  \A c \in DOMAIN calls :
    LET call == calls[c] IN
    (Done(c) /\ call.fn \in BatchFns /\ call.logged # << >>) =>
      /\ call.resp.body = << >>
      /\ ~IsArchive(call.resp)
      /\ call.fn \in ViewFns => call.resp.status \in {404, 500}
      /\ call.fn \notin ViewFns => (call.resp = NoResp /\ call.exc # NoFailure)

\* a request for several stories fails at its second item, after the first was
\* rendered and written to the buffer
C4_Witness ==
  \E c \in DOMAIN calls :
    /\ Done(c) /\ calls[c].fn = "export_multiple_stories"
    /\ calls[c].rendered >= 2 /\ calls[c].logged # << >>
    /\ calls[c].resp.status = 500

\* the whitespace-delimited tokens of a text: the places where a token starts
TokenCount(text) ==
  Cardinality({i \in 1..Len(text) :
                 text[i] \notin Whitespace /\ (i = 1 \/ text[i - 1] \in Whitespace)})

RECURSIVE SumFirst(_, _)
\* the sum of the first n numbers of a sequence
SumFirst(nums, n) == IF n = 0 THEN 0 ELSE nums[n] + SumFirst(nums, n - 1)

\* C5: statistics.total_words of a non-empty batch is the sum of the token counts
\* of the items' contents, and the sum of the word_count fields under 'stories'
C5_TotalWords ==
  (mout.done /\ mbatch # << >>) =>
    /\ mout.meta.statistics.total_words =
         SumFirst([i \in 1..Len(mbatch) |-> TokenCount(mbatch[i].content)], Len(mbatch))
    /\ mout.meta.statistics.total_words =
         SumFirst([i \in 1..Len(mbatch) |-> mout.meta.stories[i].word_count],
                  Len(mbatch))

\* a batch of two stories, one with whitespace around its only word, with words
C5_Witness ==
  /\ mout.done /\ Len(mbatch) >= 2
  /\ \E i \in 1..Len(mbatch) : mbatch[i].content = <<" ", "a">>
  /\ mout.meta.statistics.total_words >= 2

\* C6: statistics.average_rating of a non-empty batch is non-null exactly when an
\* item has a rating, and is then the mean of the rated items, to one decimal
C6_AverageRating ==
  (mout.done /\ mbatch # << >>) =>
    LET rated == {i \in 1..Len(mbatch) : mbatch[i].rating # None}
        total == SumFirst([i \in 1..Len(mbatch) |->
                             IF i \in rated THEN mbatch[i].rating[1] ELSE 0],
                          Len(mbatch))
        avg == mout.meta.statistics.average_rating
    IN /\ (avg # None) <=> (rated # {})
       /\ avg # None => avg = Some(RoundTenths(total, Cardinality(rated)))

\* C7: in a returned archive the item entries stand in the order of the input
\* sequence and collection_info.json is the last entry
C7_EntriesInInputOrder ==
  \A c \in DOMAIN calls :
    LET call == calls[c]
        body == call.resp.body
        items == ItemEntries(body)
    IN (Done(c) /\ call.fn \in BatchFns /\ IsArchive(call.resp)) =>
         /\ body[Len(body)].name = CollectionInfoName
         /\ \A k \in 1..(Len(body) - 1) : body[k].name.kind = "story"
         /\ call.fmt \in Formats =>
              /\ Len(items) = Len(call.qs)
              /\ \A k \in 1..Len(items) :
                   /\ items[k].name = StoryFilename(call.qs[k], call.fmt)
                   /\ items[k].data.id = call.qs[k].id

\* an archive of two different stories given oldest first, unlike the table's order
C7_Witness ==
  \E c \in DOMAIN calls :
    /\ Done(c) /\ IsArchive(calls[c].resp) /\ calls[c].fmt \in Formats
    /\ Len(calls[c].qs) = 2 /\ calls[c].qs[1].id < calls[c].qs[2].id

\* what export_multiple_stories_zip returns for a batch when it runs alone
ArchiveAlone(qs, fmt, t) ==
  [k \in 1..(Len(qs) + 1) |->
     IF k <= Len(qs)
     THEN [name |-> StoryFilename(qs[k], fmt),
           data |-> Render(SetupCustomStyles, qs[k], fmt, t)]
     ELSE [name |-> CollectionInfoName, data |-> GenerateCollectionMetadata(qs, t)]]

\* C8: under any interleaving of calls on the shared service the styles stay as
\* constructed and every call returns what it returns when run alone
C8_CallsAreIndependent ==
  /\ svc = SetupCustomStyles
  /\ \A c \in DOMAIN calls :
       LET call == calls[c] IN
       Done(c) =>
         /\ call.exc = NoFailure
         /\ IF call.fn \in SingleFns
            THEN call.resp = Attachment(ContentTypeOf(call.fmt),
                                        StoryFilename(call.qs[1], call.fmt),
                                        <<Render(SetupCustomStyles, call.qs[1], call.fmt, now)>>)
            ELSE call.resp = Attachment("application/zip", ZipFilename(now),
                                        ArchiveAlone(call.qs, call.fmt, now))

\* one call has returned a paged-document archive while another call is in the
\* middle of its own archive
C8_Witness ==
  \E c1, c2 \in DOMAIN calls :
    /\ c1 # c2
    /\ Done(c1) /\ calls[c1].fmt = "pdf" /\ calls[c1].fn = "export_multiple_stories_zip"
    /\ calls[c2].pc = "zip_loop" /\ calls[c2].i = 2 /\ calls[c2].fmt = "pdf"

\* C9: every export request of an authenticated user is answered 400 for an
\* unsupported format, 404 for an export over zero items (an empty story_ids
\* list included), 500 without detail for a renderer or archive failure, and 200
\* with the artifact otherwise
C9_FourOutcomes ==
  \A c \in DOMAIN calls :
    LET call == calls[c] IN
    (Done(c) /\ call.fn \in ViewFns /\ call.user # Anonymous) =>
      /\ call.resp.status \in {200, 400, 404, 500}
      /\ (call.fmt \notin Formats
            /\ (call.fn = "export_story" => call.qs # << >>)
            /\ (call.fn = "export_multiple_stories" => call.ids # {}))
           => call.resp.status = 400
      /\ (call.fmt \in Formats /\ call.qs = << >>) => call.resp.status = 404
      /\ RenderFailed(call) =>
           (call.resp.status = 500 /\ call.resp.error = MsgExportFailed)
      /\ call.resp.status = 200 => (call.resp.body # << >> /\ call.qs # << >>)

\* C10: a successful export response is an attachment whose media type and file
\* name extension match the format: text/plain .txt, text/html .html,
\* application/pdf .pdf for a story, application/zip .zip for a batch
C10_SuccessIsADownload ==
  \A c \in DOMAIN calls :
    LET call == calls[c]
        resp == call.resp
    IN (Done(c) /\ resp.status = 200) =>
         /\ resp.disposition = "attachment"
         /\ IF call.fn \in SingleFns
            THEN /\ resp.content_type =
                      (CASE call.fmt = "txt" -> "text/plain"
                         [] call.fmt = "html" -> "text/html"
                         [] call.fmt = "pdf" -> "application/pdf")
                 /\ resp.filename.kind = "story"
                 /\ resp.filename.ext = call.fmt
                 /\ resp.filename.id = call.qs[1].id
            ELSE /\ resp.content_type = "application/zip"
                 /\ resp.filename.kind = "stories_collection"
                 /\ resp.filename.ext = "zip"

\* a paged-document export of one story answered 200
C10_Witness ==
  \E c \in DOMAIN calls :
    /\ Done(c) /\ calls[c].fn = "export_story" /\ calls[c].fmt = "pdf"
    /\ calls[c].resp.status = 200

\* C11: an export request without credentials is answered 401 with no content, a
\* single-story export of a story of another user is answered 404, and every
\* story in a 200 response (the story of a single export, every item entry and
\* every listed story of an archive) is one the requester asked for and owns
C11_OnlyOwnStories ==
  \A c \in DOMAIN calls :
    LET call == calls[c]
        body == call.resp.body
        items == ItemEntries(body)
        infos == InfoEntries(body)
        owned == {call.qs[k].id : k \in {k \in 1..Len(call.qs) : call.qs[k].user = call.user}}
    IN (Done(c) /\ call.fn \in ViewFns) =>
         /\ call.user = Anonymous => (call.resp.status = 401 /\ body = << >>)
         /\ (call.fn = "export_story" /\ call.user # Anonymous
               /\ \E r \in stories : r.id \in call.ids /\ r.user # call.user)
              => (call.resp.status = 404 /\ body = << >>)
         /\ call.resp.status = 200 =>
              /\ call.fn # "export_user_collection_view" => owned \subseteq call.ids
              /\ IF call.fn = "export_story"
                 THEN /\ Len(body) = 1 /\ body[1].id \in owned
                      /\ body[1].fmt = "html" => body[1].out.story.user = call.user
                      /\ body[1].fmt = "txt" => body[1].out[2] = Line("Author", call.user)
                 ELSE /\ \A k \in 1..Len(items) :
                           items[k].name.id \in owned /\ items[k].data.id \in owned
                      /\ \A k \in 1..Len(infos) :
                           infos[k].data.keys # {} =>
                             \A j \in DOMAIN infos[k].data.stories :
                               infos[k].data.stories[j].id \in owned

\* a request for the requester's own story together with a story of someone else
\* is answered with an archive
C11_Witness ==
  \E c \in DOMAIN calls :
    /\ Done(c) /\ calls[c].fn = "export_multiple_stories" /\ calls[c].resp.status = 200
    /\ \E r \in stories : r.id \in calls[c].ids /\ r.user # calls[c].user
    /\ Len(ItemEntries(calls[c].resp.body)) = 1

Str_ExportedOn == "Exported from AI Story Generator on"

\* C12: two plain-text renderings of the same story have the same lines, except
\* for the one footer line that carries the export timestamp
C12_TxtDeterministic ==
  \A c1, c2 \in DOMAIN calls :
    LET a == calls[c1]
        b == calls[c2]
    IN (Done(c1) /\ Done(c2) /\ a.fn = "export_story_svc" /\ b.fn = "export_story_svc"
          /\ a.fmt = "txt" /\ b.fmt = "txt" /\ a.qs = b.qs) =>
         LET o1 == a.resp.body[1].out
             o2 == b.resp.body[1].out
         IN /\ Len(o1) = Len(o2)
            /\ \A k \in 1..Len(o1) :
                 o1[k] # o2[k] =>
                   /\ k = Len(o1) - 1
                   /\ o1[k].label = Str_ExportedOn /\ o2[k].label = Str_ExportedOn

\* the same story was rendered at two different instants and the outputs differ
C12_Witness ==
  \E c1, c2 \in DOMAIN calls :
    /\ Done(c1) /\ Done(c2) /\ calls[c1].qs = calls[c2].qs
    /\ calls[c1].fmt = "txt" /\ calls[c2].fmt = "txt"
    /\ calls[c1].resp.body # calls[c2].resp.body

\* the places of a plain-text output that hold the line of a label
LinesOf(out, label) == {k \in 1..Len(out) : out[k].label = label}

\* C13: the plain-text output of a story without a title begins with the line
\* 'Title: Untitled Story', and the output of every story has the line
\* 'Word Count: N words' with N the number of whitespace-delimited tokens of the
\* content (0 for an empty content)
C13_UntitledAndWordCount ==
  \A c \in DOMAIN calls :
    LET call == calls[c] IN
    (Done(c) /\ call.fn = "export_story_svc" /\ call.fmt = "txt") =>
      LET out == call.resp.body[1].out
          story == call.qs[1]
      IN /\ story.title = << >> => out[1] = Line("Title", Str_UntitledStory)
         /\ \E k \in LinesOf(out, "Word Count") :
              out[k].value = TokenCount(story.content)
         /\ story.content = << >> =>
              \A k \in LinesOf(out, "Word Count") : out[k].value = 0

\* a story without a title whose content has two words and three characters
C13_Witness ==
  \E c \in DOMAIN calls :
    /\ Done(c) /\ calls[c].fmt = "txt" /\ calls[c].qs[1].title = << >>
    /\ calls[c].qs[1].content = <<"a", " ", "b">>
    /\ \E k \in LinesOf(calls[c].resp.body[1].out, "Word Count") :
         calls[c].resp.body[1].out[k].value = 2

\* the fields a story must show: the rating if it has one, the model if it is
\* not the template sentinel
FieldsOf(story) ==
  {"Title", "Author", "Created", "Genre", "Length", "Tone", "Keywords", "Word Count"}
    \cup (IF story.rating # None THEN {"Rating"} ELSE {})
    \cup (IF story.ai_model_used # TemplateSentinel THEN {"Generated with"} ELSE {})

\* the labelled lines of a plain-text output
TxtFields(out) ==
  {out[k].label : k \in 1..Len(out)} \ {"", "content", Str_ExportedOn}

\* the labelled paragraphs of a paged document (the body paragraphs have no label)
PdfFields(out) ==
  {out[k].text.label :
     k \in {j \in 1..Len(out) :
              out[j].kind = "Paragraph" /\ out[j].style.name # "CustomContent"}}
    \ {Str_ExportedOn}

\* C14: the plain-text and the paged-document output of a story show the same
\* fields: the eight fixed ones, a rating exactly when the story has a rating
\* and 'Generated with' exactly when the model is not the template sentinel
C14_SameFields ==
  \A c \in DOMAIN calls :
    LET call == calls[c] IN
    (Done(c) /\ call.fn = "export_story_svc" /\ call.fmt \in {"txt", "pdf"}) =>
      LET out == call.resp.body[1].out
          story == call.qs[1]
      IN IF call.fmt = "txt"
         THEN /\ TxtFields(out) = FieldsOf(story)
              /\ out[1] = Line("Title", StrOr(story.title, Str_UntitledStory))
         ELSE /\ PdfFields(out) = FieldsOf(story)
              /\ out[1].text = Line("Title", StrOr(story.title, Str_UntitledStory))

\* the word count a rendering shows
ShownCount(r) ==
  CASE r.fmt = "txt" ->
         r.out[CHOOSE k \in LinesOf(r.out, "Word Count") : TRUE].value
    [] r.fmt = "pdf" ->
         r.out[CHOOSE k \in 1..Len(r.out) :
                 r.out[k].kind = "Paragraph" /\ r.out[k].style.name = "CustomMeta"
                   /\ r.out[k].text.label = "Word Count"].text.value
    [] r.fmt = "html" -> r.out.word_count

\* C15: the word count every export shows is the token count of the content the
\* story has in the table when the export reads it: at the request for a single
\* export, at the fetch of the rows for a batch, whose entries and metadata
\* then show the token count of the rows fetched
C15_WordCountNeverStale ==
  [][\A c \in DOMAIN calls :
       LET old == calls[c]
           new == calls'[c]
           body == new.resp.body
           items == ItemEntries(body)
           infos == InfoEntries(body)
       IN /\ (old.pc = "zip_fetch" /\ new.pc = "zip_loop") =>
               \A k \in 1..Len(new.qs) : new.qs[k] \in stories
          /\ (old.pc # "done" /\ new.pc = "done" /\ new.resp.status = 200
                /\ new.fn = "export_story") =>
               \E row \in stories :
                 /\ row.id \in new.ids
                 /\ ShownCount(body[1]) = TokenCount(row.content)
          /\ (old.pc # "done" /\ new.pc = "done" /\ new.resp.status = 200
                /\ new.fn = "export_user_collection_view") =>
               /\ Len(items) = Len(new.qs) /\ Len(infos) = 1
               /\ \A k \in 1..Len(items) :
                    ShownCount(items[k].data) = TokenCount(new.qs[k].content)
               /\ new.qs # << >> =>
                    /\ \A k \in 1..Len(new.qs) :
                         infos[1].data.stories[k].word_count = TokenCount(new.qs[k].content)
                    /\ infos[1].data.statistics.total_words =
                         SumFirst([k \in 1..Len(new.qs) |-> TokenCount(new.qs[k].content)],
                                  Len(new.qs))
    ]_vars

\* a story whose content was rewritten to a single word after it was created with
\* two is exported as a web page that shows one word
C15_Witness ==
  \E c \in DOMAIN calls :
    /\ Done(c) /\ calls[c].fn = "export_story" /\ calls[c].fmt = "html"
    /\ calls[c].resp.status = 200
    /\ calls[c].qs[1].title = <<"a", " ", "b">> /\ calls[c].qs[1].content = <<"a">>
    /\ ShownCount(calls[c].resp.body[1]) = 1

\* C16: the aggregator called on an empty export set ends in an error and returns
\* no metadata document, not even an empty one
C16_AggregatorRejectsEmpty ==
  (mout.done /\ mbatch = << >>) => mout.exc # NoFailure

\* a rating that the specification allows: none, or an integer from 1 to 5
RatingInRange(r) == r = None \/ r[1] \in 1..5

\* C17: whatever requests were made, every story's rating is absent or an integer
\* from 1 to 5; and a rate_story request of the owner whose rating is missing,
\* is not an integer or lies outside 1..5 is answered 400 and leaves the rating
\* as it was
C17_RatingInRange ==
  /\ \A r \in stories : RatingInRange(r.rating)
  /\ \A c \in DOMAIN calls :
       LET call == calls[c] IN
       (Done(c) /\ call.fn = "rate_story" /\ call.qs # << >>
          /\ ~(call.data[1].kind = "int" /\ call.data[1].val \in 1..5)) =>
         /\ call.resp.status = 400
         /\ call.qs[1] \in stories

\* C18: a GET of the story detail endpoint without credentials is answered 200
\* with the id and the content for a public story and 404 for a private one
C18_PublicDetailIsReadable ==
  \A c \in DOMAIN calls :
    LET call == calls[c] IN
    (Done(c) /\ call.fn = "story_detail" /\ call.user = Anonymous) =>
      \A r \in stories :
        r.id \in call.ids =>
          IF r.is_public
          THEN /\ call.resp.status = 200
               /\ call.resp.body # << >>
               /\ call.resp.body[1].id = r.id /\ call.resp.body[1].content = r.content
          ELSE call.resp.status = 404

\* C19: a story created by a generation request that names one of the
\* requester's collections is assigned to that collection
C19_GeneratedIntoCollection ==
  \A c \in DOMAIN calls :
    LET call == calls[c] IN
    (Done(c) /\ call.fn = "generate_story" /\ call.resp.status = 201
       /\ call.data[1] # None
       /\ \E col \in collections.rows :
            col.id = call.data[1][1] /\ col.user = call.user) =>
      \A r \in stories :
        r.id = call.resp.body[1].id => r.collection = call.data[1]

\* C20: under any interleaving of registrations, collection forms and posts of
\* the generation form, no user has two collections with is_default set
C20_OneDefaultCollection ==
  \A u \in users : Cardinality(DefaultsOf(collections.rows, u)) <= 1

\* the steps a call takes from one position to the next
PcSteps ==
  {<<"idle", "zip_fetch">>, <<"idle", "zip_loop">>, <<"idle", "done">>,
   <<"zip_fetch", "zip_loop">>, <<"zip_loop", "zip_loop">>, <<"zip_loop", "done">>,
   <<"done", "idle">>}

C22_FailuresPropagateUnmodified ==
  [][\A c \in DOMAIN calls, f \in Failures :
       /\ (calls[c].fn \in ServiceBatchFns /\ (ZipLoop(c, f) \/ ZipFinish(c, f))) =>
            /\ calls'[c].pc = "done"
            /\ calls'[c].exc = f
            /\ calls'[c].resp = NoResp
            /\ calls'[c].rendered <= Len(calls'[c].qs)
            /\ calls'[c].rendered - calls[c].rendered =
                 (IF calls[c].i <= Len(calls[c].qs) THEN 1 ELSE 0)
       /\ \A story \in stories, fmt \in Formats :
            SvcExportStory(c, story, fmt, f) =>
              /\ calls'[c].pc = "done"
              /\ calls'[c].exc = f
              /\ calls'[c].resp = NoResp
              /\ calls'[c].rendered = 1]_vars

\* the renderer failed on the second item of a batch given to the service
C22_Witness ==
  \E c \in DOMAIN calls :
    /\ Done(c) /\ calls[c].fn \in ServiceBatchFns
    /\ calls[c].exc \in Failures /\ calls[c].exc.kind = "ValueError"
    /\ calls[c].rendered = 2 /\ Len(calls[c].qs) = 2

\* C23: in the archive of a batch whose stories have pairwise distinct identifiers
\* the item entry file names are pairwise distinct texts, whatever the titles, and
\* none of them is the text collection_info.json
C23_DistinctFilenames ==
  \A c \in DOMAIN calls :
    LET call == calls[c]
        items == ItemEntries(call.resp.body)
    IN (Done(c) /\ IsArchive(call.resp)
        /\ \A j, k \in 1..Len(call.qs) : call.qs[j].id = call.qs[k].id => j = k) =>
         /\ Len(items) = Len(call.qs)
         /\ \A j, k \in 1..Len(items) :
              FilenameText(items[j].name) = FilenameText(items[k].name) => j = k
         /\ \A j \in 1..Len(items) :
              FilenameText(items[j].name) # FilenameText(CollectionInfoName)

\* two stories whose different titles both have an empty slug, and the second
\* identifier has two digits
C23_Witness ==
  \E c \in DOMAIN calls :
    /\ Done(c) /\ IsArchive(calls[c].resp) /\ Len(calls[c].qs) = 2
    /\ calls[c].qs[1].title = <<"-">> /\ calls[c].qs[2].title = <<"_">>
    /\ calls[c].resp.body[1].name.slug = << >>
    /\ calls[c].resp.body[2].name.slug = << >>
    /\ calls[c].qs[2].id = 12

\* a story the template generator wrote: its content is a filled template, not
\* the marker of the AI path
TemplateMade(story) == story.content[1] # ClaudeMarker

\* C24: a story the generation endpoint created through the template generator
\* shows no 'Generated with' line in its plain-text and paged-document exports and
\* is counted under template_based; a story of the AI path is counted under
\* ai_generated
C24_TemplateStoriesClassified ==
  \A c \in DOMAIN calls :
    LET call == calls[c] IN
    /\ (Done(c) /\ call.fn = "export_story" /\ call.resp.status = 200
        /\ TemplateMade(call.qs[1])) =>
         LET out == call.resp.body[1].out
         IN "Generated with" \notin
              (IF call.fmt = "txt" THEN TxtFields(out) ELSE PdfFields(out))
    /\ (Done(c) /\ call.fn \in BatchFns /\ IsArchive(call.resp)) =>
         LET body == call.resp.body
             methods == body[Len(body)].data.statistics.generation_methods
             made == {k \in 1..Len(call.qs) : TemplateMade(call.qs[k])}
         IN /\ methods.template_based = Cardinality(made)
            /\ methods.ai_generated = Len(call.qs) - Cardinality(made)

\* the label of a genre code in Story.GENRE_CHOICES
GenreLabel(g) == IF g = "fantasy" THEN "Fantasy" ELSE "Science Fiction"

\* C25: for a non-empty batch of N items genre_distribution maps each genre label
\* to the number of items of that genre, labels without an item are absent, the
\* values sum to N, and ai_generated + template_based = N with both at least 0
C25_DistributionsSumToN ==
  (mout.done /\ mbatch # << >>) =>
    LET N == Len(mbatch)
        dist == mout.meta.statistics.genre_distribution
        methods == mout.meta.statistics.generation_methods
        having(g) == {k \in 1..N : mbatch[k].genre = g}
    IN /\ DOMAIN dist = {GenreLabel(g) : g \in {h \in Genres : having(h) # {}}}
       /\ \A g \in Genres :
            having(g) # {} => dist[GenreLabel(g)] = Cardinality(having(g))
       /\ Cardinality({<<l, k>> \in (DOMAIN dist) \X (1..N) : k <= dist[l]}) = N
       /\ methods.ai_generated >= 0 /\ methods.template_based >= 0
       /\ methods.ai_generated + methods.template_based = N

\* a batch of two genres, one story of the template sentinel and one of a model
C25_Witness ==
  /\ mout.done /\ Len(mbatch) = 2
  /\ mbatch[1].genre # mbatch[2].genre
  /\ mbatch[1].ai_model_used = TemplateSentinel
  /\ mbatch[2].ai_model_used = Str_ClaudeSonnet
  /\ mout.meta.statistics.generation_methods.ai_generated = 1

\* the blank lines of a content, read from the left: position p is one when a
\* line break stands at p and at p + 1 and p - 1 is not one already
RECURSIVE IsCut(_, _)
IsCut(s, p) ==
  /\ p >= 1 /\ p < Len(s)
  /\ s[p] = "\n" /\ s[p + 1] = "\n"
  /\ ~IsCut(s, p - 1)

\* where the blocks between the blank lines start, and where the block that
\* starts at b ends
BlockStarts(s) == {1} \cup {p + 2 : p \in {q \in 1..Len(s) : IsCut(s, q)}}
BlockEnd(s, b) ==
  LET after == {q \in b..Len(s) : IsCut(s, q)}
  IN IF after = {} THEN Len(s)
     ELSE (CHOOSE q \in after : \A r \in after : q <= r) - 1
Inked(s, b) == {k \in b..BlockEnd(s, b) : s[k] \notin Whitespace}
NonBlankStarts(s) == {b \in BlockStarts(s) : Inked(s, b) # {}}
\* the block that starts at b without the white space around it
Trimmed(s, b) ==
  LET ink == Inked(s, b)
  IN SubSeq(s, CHOOSE k \in ink : \A j \in ink : k <= j,
               CHOOSE k \in ink : \A j \in ink : k >= j)
BodyParagraphs(out) ==
  SelectSeq(out, LAMBDA e : e.kind = "Paragraph" /\ e.style.name = "CustomContent")
\* the title, the six metadata lines, the keyword line and the footer are there
FixedElements(out) ==
  /\ out[1].kind = "Paragraph" /\ out[1].text.label = "Title"
  /\ {"Author", "Created", "Genre", "Length", "Tone", "Word Count", "Keywords"}
       \subseteq PdfFields(out)
  /\ out[Len(out)].kind = "Paragraph" /\ out[Len(out)].text.label = Str_ExportedOn

\* C26 (as stated): the paged document has one body paragraph per non-blank block;
\* empty content gives none, and content without blank lines gives exactly one
C26_OneParagraphWithoutBlankLines ==
  \A c \in DOMAIN calls :
    LET call == calls[c] IN
    (Done(c) /\ call.fn = "export_story_svc" /\ call.fmt = "pdf"
       /\ call.resp.status = 200) =>
      LET content == call.qs[1].content
          body == BodyParagraphs(call.resp.body[1].out)
      IN /\ content = << >> => Len(body) = 0
         /\ (content # << >> /\ \A p \in 1..Len(content) : ~IsCut(content, p)) =>
              Len(body) = 1

\* C26 (amended): the paged document has exactly one body paragraph per non-blank
\* block of the content split on blank lines, in content order, each the block
\* without the white space around it; content without blank lines gives one body
\* paragraph if it has a character that is not white space and none otherwise;
\* the title, the metadata lines, the keyword line and the footer are always there
C26_OneParagraphPerNonBlankBlock ==
  \A c \in DOMAIN calls :
    LET call == calls[c] IN
    (Done(c) /\ call.fn = "export_story_svc" /\ call.fmt = "pdf") =>
      LET content == call.qs[1].content
          out == call.resp.body[1].out
          body == BodyParagraphs(out)
          starts == NonBlankStarts(content)
          nth(k) == CHOOSE b \in starts : Cardinality({x \in starts : x < b}) = k - 1
      IN /\ call.resp.status = 200
         /\ FixedElements(out)
         /\ Len(body) = Cardinality(starts)
         /\ \A k \in 1..Len(body) : body[k].text = Trimmed(content, nth(k))
         /\ (\A p \in 1..Len(content) : ~IsCut(content, p)) =>
              Len(body) = (IF \E k \in 1..Len(content) : content[k] \notin Whitespace
                           THEN 1 ELSE 0)

\* a content of two blocks around a blank line gave two body paragraphs
C26_Witness ==
  \E c \in DOMAIN calls :
    /\ Done(c) /\ calls[c].fn = "export_story_svc" /\ calls[c].fmt = "pdf"
    /\ calls[c].qs[1].content = <<"a", "\n", "\n", "a">>
    /\ Len(BodyParagraphs(calls[c].resp.body[1].out)) = 2

\* C27: whatever the query parameters, the story list returns a story that is not
\* public only to its owner; an anonymous requester gets public stories only
C27_ListHidesPrivateStories ==
  \A c \in DOMAIN calls :
    LET call == calls[c] IN
    (Done(c) /\ call.fn = "story_list" /\ call.resp.status = 200) =>
      LET results == call.resp.body[1]
      IN \A k \in 1..Len(results) :
           ~results[k].is_public => results[k].user = call.user

\* every story's collection is absent or a collection of the story's own user
CollectionsOwned(rows, cols) ==
  \A s \in rows :
    s.collection # None =>
      \E col \in cols : col.id = s.collection[1] /\ col.user = s.user

\* C28: under move, collection create/edit/delete and generation requests each
\* story's collection is absent or owned by the story's user; a move changes only
\* stories of the requester, answers 404 and changes nothing when the target is
\* not a collection of the requester, and deleting a collection deletes no story
\* and sets the collection of exactly its stories to absent
C28_CollectionOwnedByStoryUser ==
  [][/\ CollectionsOwned(stories', collections'.rows)
     /\ \A c \in DOMAIN calls, u \in Users, ids \in MoveIds,
           colId \in {None} \cup {Some(k) : k \in 0..MaxCols} :
          MoveCheck(c, u, ids, colId) =>
            /\ stories' = stories
            /\ (colId # None /\ colId[1] # 0
                /\ ~\E col \in collections.rows : col.id = colId[1] /\ col.user = u) =>
                 (calls'[c].pc = "done" /\ calls'[c].resp.status = 404)
     /\ \A c \in DOMAIN calls :
          MoveUpdate(c) =>
            /\ {s.id : s \in stories'} = {s.id : s \in stories}
            /\ \A s \in stories :
                 (s.user # calls[c].user \/ s.id \notin calls[c].ids) => s \in stories'
            /\ \A s \in stories' :
                 s \notin stories =>
                   \E old \in stories : s = [old EXCEPT !.collection = calls[c].data[1]]
     /\ \A u \in Users, id \in 1..MaxCols :
          DeleteCollection(u, id) =>
            /\ Cardinality(stories') = Cardinality(stories)
            /\ \A s \in stories :
                 IF s.collection = Some(id)
                 THEN [s EXCEPT !.collection = None] \in stories'
                 ELSE s \in stories']_vars

\* bob's story is in a collection of bob while alice's story is in none
C28_Witness ==
  /\ \E s \in stories :
       /\ s.user = "bob" /\ s.collection # None
       /\ \E col \in collections.rows : col.id = s.collection[1] /\ col.user = "bob"
  /\ \E s \in stories : s.user = "alice" /\ s.collection = None
  /\ \E c \in DOMAIN calls :
       Done(c) /\ calls[c].fn = "move_to_collection" /\ calls[c].resp.status = 404

\* the requests that end with a completed update_stats
StatsFns == {"generate_story", "rate_story", "toggle_favorite"}

\* C29: right after update_stats completes stories_generated is the number of the
\* user's stories, favorite_stories_count the number of them marked favorite, and
\* average_rating the mean of the ratings of the user's rated stories, or absent
\* when the user has no rated story
C29_StatsMatchStories ==
  [][\A c \in DOMAIN calls :
       (calls[c].pc = "idle" /\ calls'[c].pc = "done" /\ calls'[c].fn \in StatsFns
          /\ calls'[c].resp.status \in {200, 201}) =>
         LET mine == {r \in stories' : r.user = calls'[c].user}
             rated == {r \in mine : r.rating # None}
             profile == profiles'[calls'[c].user]
             avg == profile.average_rating
         IN /\ profile.stories_generated = Cardinality(mine)
            /\ profile.favorite_stories_count =
                 Cardinality({r \in mine : r.is_favorite})
            /\ IF rated = {} THEN avg = None
               ELSE /\ avg # None
                    /\ avg[1][1] * Cardinality(rated) = RatingSum(rated) * avg[1][2]]_vars

====
